---- MODULE Spec2Model ----
(***************************************************************************)
(* Kinematic post-processing pipeline of DC-ROM.                           *)
(*                                                                         *)
(* PersonTracker (src/src/core/person_tracker.py): the set of active       *)
(* tracks, the id counter, update() and reset().                           *)
(*                                                                         *)
(* Conventions.  Python's 0-based detection indices are 1-based here, so   *)
(* best_match_idx = -1 ("no match") is 0.  A detection is its keypoints;   *)
(* the detector (mediapipe_model.py:54) always adds hip_center, which is   *)
(* the only keypoint _calculate_center reads in that case.  Centers are    *)
(* drawn from a grid whose pairwise Euclidean distances are integers, so   *)
(* np.linalg.norm is exact; tracking_confidence, a real number, is kept    *)
(* as the exact fraction <<numerator, denominator>>.                       *)
(* frame_count, last_frame and created_frame are written by update() and   *)
(* read by no operation; frame_count is kept, the two fields are not.      *)
(*                                                                         *)
(* Gap interpolation (src/src/processing/interpolation.py):                *)
(* _interpolate_1d_gaps, interpolate_angles and                            *)
(* interpolate_missing_keypoints, each for one named quantity.  Indices    *)
(* are 1-based.  Values are exact fractions <<numerator, denominator>>     *)
(* (the code's floats, without rounding), None is <<>>, and a confidence   *)
(* is counted in tenths, so the code's 0.3 is 3.                           *)
(***************************************************************************)
EXTENDS Integers, Sequences, FiniteSets, TLC

\* ---------------------------------------------------------------- bounds
MaxDet == 2          \* detections per frame
MaxIds == 3          \* ids the model lets one tracker epoch hand out
MaxFrames == 3       \* update calls per epoch, frames of up to MaxDet detections
MaxFramesSparse == 34 \* update calls per epoch, frames of at most one detection
MaxLen == 5          \* frames of a sequence given to the interpolation
MaxGap == 3          \* largest max_gap_size tried
MaxJobFrames == 12   \* frames one video job collects
MaxIrregular == 2    \* frames of a job without the person or without its angle
MaxFpFrames == 3     \* process_frame calls on one FrameProcessor between resets
MaxJobs == 2         \* video jobs given to one VideoProcessor
MaxVideoLen == 2     \* frames of a video
MaxConns == 2        \* WebSocket connections over the life of the manager
MaxWsFrames == 2     \* frames received on one connection
MaxTotalFrames == 4  \* frames of the video of a job with a frame range
MaxTime == 6         \* largest start_time and end_time, in half seconds
MaxSkip == 3         \* largest skip_frames
MaxSeries == 17      \* samples of a series given to a filter function

\* ------------------------------------------------------ program constants
max_distance_threshold == 100   \* person_tracker.py:8
MaxFramesLost == 30             \* person_tracker.py:30 and :100
ConfidenceThreshold == 3        \* interpolation.py:35 (0.3, in tenths)
MinFilterFrames == 10           \* video_processor.py:106
DefaultMaxGap == 10             \* interpolation.py:76
DefaultFps == 30                \* frame_processor.py:23
MinButterworth == 10            \* filters.py:33
MinKernel == 3                  \* filters.py:63 and :78
Cutoff == 6                     \* filters.py:38 (Hz)
PadLen == 15                    \* filters.py:52: filtfilt's padlen, 3 * (order + 1)
FootThreshold == 10             \* metrics.py:123 and :126 (px)

\* Centers: three corners of a 60 x 80 rectangle, at distances 60, 80 and
\* 100 (the threshold itself) from one another.
Centers == {<<0, 0>>, <<60, 0>>, <<60, 80>>}
\* Centers of the long runs: two points exactly the threshold apart.
SparseCenters == {<<0, 0>>, <<60, 80>>}

Range(q) == {q[i] : i \in 1..Len(q)}

SeqsUpTo(S, n) == UNION {[1..k -> S] : k \in 0..n}

\* A detection as the detector returns it: keypoints with a hip_center.
DetectionAt(c) == [hip_center |-> c]
FrameInputs == SeqsUpTo({DetectionAt(c) : c \in Centers}, MaxDet)
SparseInputs == SeqsUpTo({DetectionAt(c) : c \in SparseCenters}, 1)

VARIABLES
    person_tracks,     \* id -> [last_center, frames_lost]   (self.person_tracks)
    next_person_id,    \* self.next_person_id
    frame_count,       \* self.frame_count
    op,                \* the last operation: "init", "update" or "reset"
    detections,        \* history: argument of the last update call, if any
    result,            \* history: value it returned
    created,           \* history: ids of the tracks the last update call made
    steady,            \* history: every frame since construction or reset held
                       \* one detection, less than the threshold from the last
    issued,            \* history: ids handed out over the life of the instance
    epoch_issued,      \* history: ids handed out since construction or reset
    history,           \* history: id -> [misses, last_center] since construction or reset
    interp_call,       \* "none", "angles" (interpolate_angles) or "keypoints"
                       \* (interpolate_missing_keypoints): the call at hand
    interp_in,         \* the sequence as it was given to the call
    max_gap_size,      \* its max_gap_size argument
    interp_out,        \* the sequence the call returned
    interp_done,       \* whether the call has returned
    raw_results,       \* _process_video_sync: the FrameResults collected so far
    apply_filter,      \* its apply_filter argument
    filter_type,       \* its filter_type argument
    video_done,        \* whether the job has returned
    video_out,         \* the 'results' it returned
    filter_in,         \* history: the series the job handed to the filter
    held_results,      \* the FrameResult objects of raw_results as they are
                       \* now (raw_results keeps them as they were collected)
    fp,                \* a FrameProcessor: its tracker, previous_frame_data,
                       \* frame_count and fps
    fp_op,             \* the last operation on it: "init", "process_frame",
                       \* "reset" or "set_fps"
    fp_ret,            \* what the last process_frame call returned, or Raised
    fp_before,         \* history: the FrameProcessor as that call found it
    fp_log,            \* history: the process_frame calls since construction
                       \* or reset: detections, fps, return value
    fp_reset,          \* history: whether reset() was called, and whether the
                       \* last one found a previous frame or a track
    frame_processor,   \* VideoProcessor: self.frame_processor
    jobs,              \* its _process_video_sync calls: per job the video, the
                       \* loop's frame_count, raw_results and how far it is
    active_connections, \* WebSocketManager: self.active_connections
    frame_processors,  \* self.frame_processors, keyed by id(websocket)
    ws_frames,         \* history: per websocket, whether it has connected and
                       \* the frames received on it
    ws_results,        \* history: per connection, the results sent back
    ws_open,           \* the websockets whose endpoint call is still running
    angle_keypoints,   \* calculate_angles: its keypoints argument
    angle_out,         \* what it returned
    angle_done,        \* whether it has returned
    cap,               \* the job's VideoCapture: opened, fps, total_frames and position
    job_args,          \* _process_video_sync: start_time, end_time and skip_frames
    job_loop,          \* its locals: start_frame, end_frame, frame_count, raw_results
    job_reads,         \* history: the frames cap.read() returned
    job_calls,         \* history: the frames and timestamps given to process_frame
    job_ret,            \* what the call returned, or that it raised
    filt_type,         \* get_filter: its filter_type argument
    filt_fps,          \* its fps argument
    filt_data,         \* the series given to the function it returned
    filt_out,          \* what that function returned, or that it raised
    filt_done,          \* whether it has been called
    metrics_keypoints, \* calculate_person_metrics: its keypoints argument
    metrics_out,       \* the visible_side and movement_direction it returned
    metrics_done       \* whether it has returned

vars == <<person_tracks, next_person_id, frame_count, op, detections, result,
          created, steady, issued, epoch_issued, history,
          interp_call, interp_in, max_gap_size, interp_out, interp_done,
          raw_results, apply_filter, filter_type, video_done, video_out,
          filter_in, held_results, fp, fp_op, fp_ret, fp_before, fp_log, fp_reset,
          frame_processor, jobs,
          active_connections, frame_processors, ws_frames, ws_results, ws_open,
          angle_keypoints, angle_out, angle_done,
          cap, job_args, job_loop, job_reads, job_calls, job_ret,
          filt_type, filt_fps, filt_data, filt_out, filt_done,
          metrics_keypoints, metrics_out, metrics_done>>

tracker_vars == <<person_tracks, next_person_id, frame_count, op, detections,
                  result, created, steady, issued, epoch_issued, history>>
interp_vars == <<interp_call, interp_in, max_gap_size, interp_out, interp_done>>
video_vars == <<raw_results, apply_filter, filter_type, video_done, video_out,
                filter_in, held_results>>
\* The variables of the components other than the tracker and the
\* interpolation.
fp_vars == <<fp, fp_op, fp_ret, fp_before, fp_log, fp_reset>>
jobs_vars == <<frame_processor, jobs>>
ws_vars == <<active_connections, frame_processors, ws_frames, ws_results, ws_open>>
angle_vars == <<angle_keypoints, angle_out, angle_done>>
range_vars == <<cap, job_args, job_loop, job_reads, job_calls, job_ret>>
filt_vars == <<filt_type, filt_fps, filt_data, filt_out, filt_done>>
metrics_vars == <<metrics_keypoints, metrics_out, metrics_done>>
rest_vars == <<video_vars, fp_vars, jobs_vars, ws_vars, angle_vars, range_vars, filt_vars, metrics_vars>>

\* -------------------------------------------------------------- helpers
Half == <<1, 2>>                       \* the literal 0.5

\* np.linalg.norm(np.array(a) - np.array(b)); exact on the grid.
Norm(a, b) ==
    LET dx == a[1] - b[1]
        dy == a[2] - b[2]
        sq == dx * dx + dy * dy
    IN  CHOOSE d \in 0..(2 * max_distance_threshold) : d * d = sq

\* _calculate_center: the hip_center branch.
CalculateCenter(det) == det.hip_center

\* Faulty variant: the "1.0 -" is forgotten.
MatchConfidenceRaw(best_distance) ==
    <<best_distance, max_distance_threshold>>

\* 1.0 - (best_distance / self.max_distance_threshold), as a fraction.
MatchConfidence(best_distance) ==
    <<max_distance_threshold - best_distance, max_distance_threshold>>

\* Ids in the order self.person_tracks iterates them: a dict iterates in
\* insertion order, and keys are inserted with increasing id.
RECURSIVE TrackOrder(_)
TrackOrder(ids) ==
    IF ids = {} THEN <<>>
    ELSE LET m == CHOOSE i \in ids : \A j \in ids : i <= j
         IN  <<m>> \o TrackOrder(ids \ {m})

\* Faulty variant: a distance equal to the threshold is accepted.
WithinThresholdInclusive(distance) == distance <= max_distance_threshold

\* distance < self.max_distance_threshold (line 58).
WithinThreshold(distance) == distance < max_distance_threshold

\* The inner loop of update (lines 47-60) for one track: scans the
\* detections in index order and keeps the nearest unclaimed one below the
\* threshold.  best_idx = 0 stands for best_match_idx = -1 with
\* best_distance = inf.
RECURSIVE ScanDetections(_, _, _, _, _, _)
ScanDetections(last_center, centers, used, det_idx, best_idx, best_distance) ==
    IF det_idx > Len(centers)
    THEN [best_match_idx |-> best_idx, best_distance |-> best_distance]
    ELSE IF det_idx \in used
    THEN ScanDetections(last_center, centers, used,
                        det_idx + 1, best_idx, best_distance)
    ELSE LET distance == Norm(last_center, centers[det_idx])
         IN  IF (best_idx = 0 \/ distance < best_distance)
                /\ WithinThreshold(distance)
             THEN ScanDetections(last_center, centers,
                                 used, det_idx + 1, det_idx, distance)
             ELSE ScanDetections(last_center, centers,
                                 used, det_idx + 1, best_idx,
                                 best_distance)

\* Faulty variant: the scan starts at the second detection.
BestMatchSkipFirst(last_center, detection_centers, used_detections) ==
    ScanDetections(last_center, detection_centers, used_detections, 2, 0, 0)

\* Faulty variant: detections claimed by earlier tracks are not skipped.
BestMatchIgnoreUsed(last_center, detection_centers, used_detections) ==
    ScanDetections(last_center, detection_centers, {}, 1, 0, 0)

BestMatch(last_center, detection_centers, used_detections) ==
    ScanDetections(last_center, detection_centers, used_detections, 1, 0, 0)

\* The entry update appends for a detection: a copy of the detection with
\* person_id and tracking_confidence; det_idx records which detection.
Entry(dets, det_idx, id, confidence) ==
    [keypoints |-> dets[det_idx], det_idx |-> det_idx,
     person_id |-> id, tracking_confidence |-> confidence]

\* "Find best matches" (lines 46-75), over the tracks in iteration order.
\* st = [tracks, used_detections, used_tracks, matched_detections].
RECURSIVE MatchTracks(_, _, _, _, _)
MatchTracks(order, k, dets, detection_centers, st) ==
    IF k > Len(order) THEN st
    ELSE LET track_id == order[k]
             b == BestMatch(st.tracks[track_id].last_center,
                            detection_centers, st.used_detections)
         IN  IF b.best_match_idx >= 1
             THEN MatchTracks(order, k + 1, dets, detection_centers,
                    [tracks |-> [st.tracks EXCEPT ![track_id] =
                                    [last_center |-> detection_centers[b.best_match_idx],
                                     frames_lost |-> 0]],
                     used_detections |-> st.used_detections \cup {b.best_match_idx},
                     used_tracks |-> st.used_tracks \cup {track_id},
                     matched_detections |-> Append(st.matched_detections,
                         Entry(dets, b.best_match_idx, track_id,
                               MatchConfidence(b.best_distance)))])
             ELSE MatchTracks(order, k + 1, dets, detection_centers, st)

\* "Create new tracks for unmatched detections" (lines 78-94).
\* st = [tracks, next_person_id, matched_detections, created]; created lists
\* the ids given to the new tracks, in the order they are made.
RECURSIVE CreateTracks(_, _, _, _, _)
CreateTracks(det_idx, dets, detection_centers, used_detections, st) ==
    IF det_idx > Len(dets) THEN st
    ELSE IF det_idx \in used_detections
    THEN CreateTracks(det_idx + 1, dets, detection_centers, used_detections, st)
    ELSE LET new_track_id == st.next_person_id
         IN  CreateTracks(det_idx + 1, dets, detection_centers, used_detections,
                [tracks |-> [i \in DOMAIN st.tracks \cup {new_track_id} |->
                                IF i = new_track_id
                                THEN [last_center |-> detection_centers[det_idx],
                                      frames_lost |-> 0]
                                ELSE st.tracks[i]],
                 next_person_id |-> st.next_person_id + 1,
                 matched_detections |-> Append(st.matched_detections,
                     Entry(dets, det_idx, new_track_id, Half)),
                 created |-> Append(st.created, new_track_id)])

\* Faulty variants of the clean-up: a limit one too high, no deletion at
\* all, and deletion of every track that was not matched.
CleanUpLate(tracks, used_tracks) ==
    LET aged == [i \in DOMAIN tracks |->
                    IF i \in used_tracks THEN tracks[i]
                    ELSE [tracks[i] EXCEPT !.frames_lost = @ + 1]]
        kept == {i \in DOMAIN tracks : aged[i].frames_lost <= MaxFramesLost + 1}
    IN  [i \in kept |-> aged[i]]

CleanUpKeep(tracks, used_tracks) ==
    [i \in DOMAIN tracks |->
        IF i \in used_tracks THEN tracks[i]
        ELSE [tracks[i] EXCEPT !.frames_lost = @ + 1]]

CleanUpEager(tracks, used_tracks) ==
    [i \in DOMAIN tracks \cap used_tracks |-> tracks[i]]

\* "Clean up lost tracks" (lines 97-101, and 28-31 with used_tracks = {}):
\* every track outside used_tracks ages by one frame and is deleted when
\* its frames_lost exceeds the limit.
CleanUp(tracks, used_tracks) ==
    LET aged == [i \in DOMAIN tracks |->
                    IF i \in used_tracks THEN tracks[i]
                    ELSE [tracks[i] EXCEPT !.frames_lost = @ + 1]]
        kept == {i \in DOMAIN tracks : aged[i].frames_lost <= MaxFramesLost}
    IN  [i \in kept |-> aged[i]]

\* Faulty variant: a new track takes len(self.person_tracks) as its id.
UpdateOutcomeLenId(tracks, next_id, dets) ==
    IF dets = <<>>
    THEN [tracks |-> CleanUp(tracks, {}), next_person_id |-> next_id,
          result |-> <<>>, created |-> <<>>]
    ELSE LET detection_centers == [i \in 1..Len(dets) |-> CalculateCenter(dets[i])]
             m == MatchTracks(TrackOrder(DOMAIN tracks), 1, dets, detection_centers,
                    [tracks |-> tracks, used_detections |-> {},
                     used_tracks |-> {}, matched_detections |-> <<>>])
             c == CreateTracks(1, dets, detection_centers, m.used_detections,
                    [tracks |-> m.tracks,
                     next_person_id |-> Cardinality(DOMAIN tracks),
                     matched_detections |-> m.matched_detections,
                     created |-> <<>>])
         IN  [tracks |-> CleanUp(c.tracks, m.used_tracks),
              next_person_id |-> c.next_person_id,
              result |-> c.matched_detections,
              created |-> c.created]

\* Faulty variant: the early return for an empty frame skips the ageing.
UpdateOutcomeNoAging(tracks, next_id, dets) ==
    IF dets = <<>>
    THEN [tracks |-> tracks, next_person_id |-> next_id,
          result |-> <<>>, created |-> <<>>]
    ELSE LET detection_centers == [i \in 1..Len(dets) |-> CalculateCenter(dets[i])]
             m == MatchTracks(TrackOrder(DOMAIN tracks), 1, dets, detection_centers,
                    [tracks |-> tracks, used_detections |-> {},
                     used_tracks |-> {}, matched_detections |-> <<>>])
             c == CreateTracks(1, dets, detection_centers, m.used_detections,
                    [tracks |-> m.tracks, next_person_id |-> next_id,
                     matched_detections |-> m.matched_detections,
                     created |-> <<>>])
         IN  [tracks |-> CleanUp(c.tracks, m.used_tracks),
              next_person_id |-> c.next_person_id,
              result |-> c.matched_detections,
              created |-> c.created]

\* PersonTracker.update: [tracks, next_person_id, result, created] after the
\* call.
UpdateOutcome(tracks, next_id, dets) ==
    IF dets = <<>>
    THEN [tracks |-> CleanUp(tracks, {}), next_person_id |-> next_id,
          result |-> <<>>, created |-> <<>>]
    ELSE LET detection_centers == [i \in 1..Len(dets) |-> CalculateCenter(dets[i])]
             m == MatchTracks(TrackOrder(DOMAIN tracks), 1, dets, detection_centers,
                    [tracks |-> tracks, used_detections |-> {},
                     used_tracks |-> {}, matched_detections |-> <<>>])
             c == CreateTracks(1, dets, detection_centers, m.used_detections,
                    [tracks |-> m.tracks, next_person_id |-> next_id,
                     matched_detections |-> m.matched_detections,
                     created |-> <<>>])
         IN  [tracks |-> CleanUp(c.tracks, m.used_tracks),
              next_person_id |-> c.next_person_id,
              result |-> c.matched_detections,
              created |-> c.created]

ResultIds(res) == {res[i].person_id : i \in 1..Len(res)}

\* History kept beside the tracker: for every id handed out since
\* construction or reset, the number of consecutive update calls (capped)
\* in which no detection was assigned to it, and the center of the last
\* detection that was.
NextHistory(hist, res) ==
    [i \in DOMAIN hist \cup ResultIds(res) |->
        IF i \in ResultIds(res)
        THEN LET e == CHOOSE k \in 1..Len(res) : res[k].person_id = i
             IN  [misses |-> 0, last_center |-> CalculateCenter(res[e].keypoints)]
        ELSE [hist[i] EXCEPT !.misses =
                 IF @ > MaxFramesLost + 1 THEN @ ELSE @ + 1]]

\* ------------------------------------------------------- interpolation
None == <<>>

\* Exact fractions.
Rat(n) == <<n, 1>>
RatAdd(a, b) == <<a[1] * b[2] + b[1] * a[2], a[2] * b[2]>>
RatSub(a, b) == <<a[1] * b[2] - b[1] * a[2], a[2] * b[2]>>
RatMul(a, b) == <<a[1] * b[1], a[2] * b[2]>>
RatEq(a, b) == a[1] * b[2] = b[1] * a[2]
RatLess(a, b) == a[1] * b[2] < b[1] * a[2]        \* denominators are positive

\* Faulty variant: alpha = j / gap_size.
LerpOffByOne(start_val, end_val, j, gap_size) ==
    RatAdd(start_val, RatMul(<<j, gap_size>>, RatSub(end_val, start_val)))

\* alpha = j / (gap_size + 1); start_val + alpha * (end_val - start_val)
\* (interpolation.py:173-174, and 60, 67-69 for a keypoint's fields).
Lerp(start_val, end_val, j, gap_size) ==
    RatAdd(start_val, RatMul(<<j, gap_size + 1>>, RatSub(end_val, start_val)))

\* Faulty variant: fills every bounded gap, whatever its size.
RECURSIVE FillGapsAnySize(_, _, _, _, _)
FillGapsAnySize(values, valid_indices, max_gap, i, res) ==
    IF i > Len(valid_indices) - 1 THEN res
    ELSE LET start_idx == valid_indices[i]
             end_idx == valid_indices[i + 1]
             gap_size == end_idx - start_idx - 1
         IN  IF gap_size > 0
             THEN FillGapsAnySize(values, valid_indices, max_gap, i + 1,
                    [k \in DOMAIN res |->
                        IF k > start_idx /\ k < end_idx
                        THEN Lerp(values[i], values[i + 1], k - start_idx, gap_size)
                        ELSE res[k]])
             ELSE FillGapsAnySize(values, valid_indices, max_gap, i + 1, res)

\* The loop "Interpolate gaps" of _interpolate_1d_gaps (lines 163-174), from
\* the i-th pair of neighbouring valid indices on.
RECURSIVE FillGaps(_, _, _, _, _)
FillGaps(values, valid_indices, max_gap, i, res) ==
    IF i > Len(valid_indices) - 1 THEN res
    ELSE LET start_idx == valid_indices[i]
             end_idx == valid_indices[i + 1]
             gap_size == end_idx - start_idx - 1
         IN  IF gap_size > 0 /\ gap_size <= max_gap
             THEN FillGaps(values, valid_indices, max_gap, i + 1,
                    [k \in DOMAIN res |->
                        IF k > start_idx /\ k < end_idx
                        THEN Lerp(values[i], values[i + 1], k - start_idx, gap_size)
                        ELSE res[k]])
             ELSE FillGaps(values, valid_indices, max_gap, i + 1, res)

\* Faulty variant: holds the first value before it and the last one after
\* it, as np.interp would.
Interpolate1dGapsHold(values, valid_indices, total_length, max_gap) ==
    LET known == [k \in 1..total_length |->
                     IF \E n \in 1..Len(valid_indices) : valid_indices[n] = k
                     THEN values[CHOOSE n \in 1..Len(valid_indices) :
                                     valid_indices[n] = k]
                     ELSE IF valid_indices = <<>> THEN None
                     ELSE IF k < valid_indices[1] THEN values[1]
                     ELSE IF k > valid_indices[Len(valid_indices)]
                          THEN values[Len(values)]
                     ELSE None]
    IN  FillGaps(values, valid_indices, max_gap, 1, known)

\* _interpolate_1d_gaps(values, valid_indices, total_length, max_gap_size).
Interpolate1dGaps(values, valid_indices, total_length, max_gap) ==
    LET known == [k \in 1..total_length |->
                     IF \E n \in 1..Len(valid_indices) : valid_indices[n] = k
                     THEN values[CHOOSE n \in 1..Len(valid_indices) :
                                     valid_indices[n] = k]
                     ELSE None]
    IN  FillGaps(values, valid_indices, max_gap, 1, known)

\* interpolate_angles for one angle name: angles_sequence[i] is the angle
\* of frame i, None when the frame has no value for it.
AnglePresent(a) == a # None

\* valid_indices of interpolate_angles (lines 106-111), from frame i on.
RECURSIVE AngleValidIndices(_, _)
AngleValidIndices(angles_sequence, i) ==
    IF i > Len(angles_sequence) THEN <<>>
    ELSE (IF AnglePresent(angles_sequence[i]) THEN <<i>> ELSE <<>>)
         \o AngleValidIndices(angles_sequence, i + 1)

InterpolateAngles(angles_sequence, max_gap) ==
    IF angles_sequence = <<>> THEN angles_sequence
    ELSE LET valid_indices == AngleValidIndices(angles_sequence, 1)
             values == [n \in 1..Len(valid_indices) |->
                           angles_sequence[valid_indices[n]]]
             interpolated_values ==
                 Interpolate1dGaps(values, valid_indices, Len(angles_sequence), max_gap)
         IN  [i \in 1..Len(angles_sequence) |->
                 IF interpolated_values[i] # None THEN interpolated_values[i]
                 ELSE angles_sequence[i]]

\* interpolate_missing_keypoints for one keypoint name: a frame either
\* lacks the keypoint or holds its x, y and confidence.
Absent == [present |-> FALSE]
Keypoint(x, y, c) == [present |-> TRUE, x |-> x, y |-> y, confidence |-> c]

KeypointValid(kp) == kp.present /\ RatLess(Rat(ConfidenceThreshold), kp.confidence)

\* valid_indices of interpolate_missing_keypoints (lines 34-39), from frame
\* i on.
RECURSIVE KeypointValidIndices(_, _)
KeypointValidIndices(keypoints_sequence, i) ==
    IF i > Len(keypoints_sequence) THEN <<>>
    ELSE (IF KeypointValid(keypoints_sequence[i]) THEN <<i>> ELSE <<>>)
         \o KeypointValidIndices(keypoints_sequence, i + 1)

\* The loop "Interpolate gaps" of interpolate_missing_keypoints (lines 45-70).
RECURSIVE FillKeypointGaps(_, _, _, _)
FillKeypointGaps(valid_indices, max_gap, i, seq) ==
    IF i > Len(valid_indices) - 1 THEN seq
    ELSE LET start_idx == valid_indices[i]
             end_idx == valid_indices[i + 1]
             gap_size == end_idx - start_idx - 1
             s == seq[start_idx]
             e == seq[end_idx]
         IN  IF gap_size > 0 /\ gap_size <= max_gap
             THEN FillKeypointGaps(valid_indices, max_gap, i + 1,
                    [k \in DOMAIN seq |->
                        IF k > start_idx /\ k < end_idx
                        THEN Keypoint(Lerp(s.x, e.x, k - start_idx, gap_size),
                                      Lerp(s.y, e.y, k - start_idx, gap_size),
                                      Lerp(s.confidence, e.confidence,
                                           k - start_idx, gap_size))
                        ELSE seq[k]])
             ELSE FillKeypointGaps(valid_indices, max_gap, i + 1, seq)

InterpolateMissingKeypoints(keypoints_sequence, max_gap) ==
    IF keypoints_sequence = <<>> THEN keypoints_sequence
    ELSE LET valid_indices == KeypointValidIndices(keypoints_sequence, 1)
         IN  IF Len(valid_indices) < 2 THEN keypoints_sequence
             ELSE FillKeypointGaps(valid_indices, max_gap, 1, keypoints_sequence)

\* Inputs of the interpolation.
\* One present value, five missing, one present value.
LongGap == <<Rat(1), None, None, None, None, None, Rat(4)>>
AngleInputs == SeqsUpTo({None, Rat(1), Rat(4)}, MaxLen) \cup {LongGap}
KeypointInputs ==
    SeqsUpTo({Absent,
              Keypoint(Rat(7), Rat(7), Rat(2)),       \* below the confidence threshold
              Keypoint(Rat(1), Rat(4), Rat(9)),
              Keypoint(Rat(4), Rat(1), Rat(6))}, MaxLen)

\* ------------------------------------- VideoProcessor: filtering of a job
\* (src/src/processing/video_processor.py, src/src/processing/filters.py)
\* A FrameResult is kept as its frame_id and its persons; a person as its
\* person_id, one keypoint (hip_center) and one angle (trunk).  Positions
\* in a list are 1-based, so the code's frame_idx < len(series) is
\* frame_idx <= Len(series).

RatLeq(a, b) == ~RatLess(b, a)

\* The middle one of three values.
Median3(a, b, c) ==
    IF RatLeq(a, b)
    THEN (IF RatLeq(b, c) THEN b ELSE IF RatLeq(a, c) THEN c ELSE a)
    ELSE (IF RatLeq(a, c) THEN a ELSE IF RatLeq(b, c) THEN c ELSE b)

\* median_filter (filters.py:77-86): signal.medfilt with kernel_size 3,
\* which pads the series with zeros.
MedianFilter(data) ==
    IF Len(data) < 3 THEN data
    ELSE [i \in 1..Len(data) |->
            Median3(IF i = 1 THEN Rat(0) ELSE data[i - 1],
                    data[i],
                    IF i = Len(data) THEN Rat(0) ELSE data[i + 1])]

\* The function get_filter returns (filters.py:20-28), applied to data:
\* the median filter, or the identity for a type it does not know.
FilterFunc(type, data) ==
    IF type = "median" THEN MedianFilter(data) ELSE data

PersonResult(id, x, y, c, angle) ==
    [person_id |-> id,
     keypoints |-> [hip_center |-> [x |-> x, y |-> y, confidence |-> c]],
     angles |-> [trunk |-> angle]]

HasPerson(frame_result, id) ==
    \E p \in 1..Len(frame_result.persons) :
        frame_result.persons[p].person_id = id

PersonOf(frame_result, id) ==
    frame_result.persons[CHOOSE p \in 1..Len(frame_result.persons) :
                            frame_result.persons[p].person_id = id]

PersonIds(results) ==
    UNION {{results[f].persons[p].person_id : p \in 1..Len(results[f].persons)} :
           f \in 1..Len(results)}

\* The frames in which the track appears, in order, from frame f on.
RECURSIVE Appearances(_, _, _)
Appearances(results, id, f) ==
    IF f > Len(results) THEN <<>>
    ELSE (IF HasPerson(results[f], id) THEN <<f>> ELSE <<>>)
         \o Appearances(results, id, f + 1)

\* _extract_persons_timeseries (lines 163-200): per person_id, one list
\* per quantity, with one element appended per frame the person is in.
ExtractPersonsTimeseries(results) ==
    [id \in PersonIds(results) |->
        LET app == Appearances(results, id, 1)
            at(i) == PersonOf(results[app[i]], id)
        IN  [x |-> [i \in 1..Len(app) |-> at(i).keypoints.hip_center.x],
             y |-> [i \in 1..Len(app) |-> at(i).keypoints.hip_center.y],
             confidence |->
                 [i \in 1..Len(app) |-> at(i).keypoints.hip_center.confidence],
             trunk |-> [i \in 1..Len(app) |-> at(i).angles.trunk]]]

\* The values of a list of angles that are not None (lines 148-150).
ValidValues(values) ==
    LET valid_indices == AngleValidIndices(values, 1)
    IN  [n \in 1..Len(valid_indices) |-> values[valid_indices[n]]]

\* "Filter angles" (lines 144-157) for one list of angles.
FilterAngleValues(values, type) ==
    IF \A i \in 1..Len(values) : values[i] = None THEN values
    ELSE LET valid_indices == AngleValidIndices(values, 1)
             filtered_values == FilterFunc(type, ValidValues(values))
         IN  [i \in 1..Len(values) |->
                 IF values[i] # None
                 THEN filtered_values[CHOOSE n \in 1..Len(valid_indices) :
                                         valid_indices[n] = i]
                 ELSE values[i]]

\* The loop of _apply_filtering over the persons (lines 136-157).
FilterPersonsData(persons_data, type) ==
    [id \in DOMAIN persons_data |->
        [x |-> FilterFunc(type, persons_data[id].x),
         y |-> FilterFunc(type, persons_data[id].y),
         confidence |-> persons_data[id].confidence,
         trunk |-> FilterAngleValues(persons_data[id].trunk, type)]]

\* The series that loop hands to filter_func (lines 142 and 151).
FilterCalls(persons_data) ==
    UNION {{[person_id |-> id, series |-> "x", data |-> persons_data[id].x],
            [person_id |-> id, series |-> "y", data |-> persons_data[id].y]}
           \cup
           (IF \A i \in 1..Len(persons_data[id].trunk) :
                    persons_data[id].trunk[i] = None
            THEN {}
            ELSE {[person_id |-> id, series |-> "trunk",
                   data |-> ValidValues(persons_data[id].trunk)]}) :
           id \in DOMAIN persons_data}

\* _reconstruct_results (lines 202-244).
ReconstructResults(original_results, filtered_persons_data) ==
    [frame_idx \in 1..Len(original_results) |->
        LET frame_result == original_results[frame_idx]
        IN  [frame_id |-> frame_result.frame_id,
             persons |->
               [p \in 1..Len(frame_result.persons) |->
                  LET person == frame_result.persons[p]
                      d == filtered_persons_data[person.person_id]
                  IN  [person_id |-> person.person_id,
                       keypoints |->
                         [hip_center |->
                            IF frame_idx <= Len(d.x)
                            THEN [x |-> d.x[frame_idx],
                                  y |-> d.y[frame_idx],
                                  confidence |-> d.confidence[frame_idx]]
                            ELSE person.keypoints.hip_center],
                       angles |->
                         [trunk |-> IF frame_idx <= Len(d.trunk)
                                    THEN d.trunk[frame_idx]
                                    ELSE person.angles.trunk]]]]]

\* The original FrameResults after _reconstruct_results: frame_result.copy()
\* and person.copy() (lines 211, 218) are shallow, so new_person shares
\* the keypoints and angles dicts of person, and the assignments at lines
\* 225-229 and 236-237 write the filtered values into the originals.
WrittenThrough(original_results, filtered_persons_data) ==
    [frame_idx \in 1..Len(original_results) |->
        LET frame_result == original_results[frame_idx]
            rebuilt == ReconstructResults(original_results,
                                          filtered_persons_data)[frame_idx]
        IN  [frame_result EXCEPT !.persons =
                [p \in 1..Len(frame_result.persons) |->
                    [frame_result.persons[p] EXCEPT
                        !.keypoints = rebuilt.persons[p].keypoints,
                        !.angles = rebuilt.persons[p].angles]]]]

\* _apply_filtering(results, filter_type, fps) (lines 123-161).
ApplyFiltering(results, type) ==
    ReconstructResults(results,
        FilterPersonsData(ExtractPersonsTimeseries(results), type))

\* Faulty variant: 10 frames are enough.
EnoughFramesInclusive(results) == Len(results) >= MinFilterFrames

\* len(raw_results) > 10 (line 106).
EnoughFrames(results) == Len(results) > MinFilterFrames

\* The frames of a job: in frame f the one tracked person (id 0) is seen
\* with its trunk angle ("full"), seen without it ("noangle") or not seen
\* ("empty"); its position and angle vary with f.
FrameKinds == {"full", "noangle", "empty"}
SignalAt(f) == Rat(10 * ((3 * f) % 7) + 10)
FrameResultOf(kind, f) ==
    [frame_id |-> f,
     persons |-> IF kind = "empty" THEN <<>>
                 ELSE <<PersonResult(0, SignalAt(f), Rat(100), Rat(9),
                            IF kind = "full" THEN SignalAt(f + 1) ELSE None)>>]

\* Whether a collected FrameResult lacks the person or its angle.
Irregular(frame_result) ==
    \/ frame_result.persons = <<>>
    \/ frame_result.persons[1].angles.trunk = None

\* ------------------------------------------------------- FrameProcessor
\* (src/src/processing/frame_processor.py and
\* src/src/analysis/velocity_calculator.py)
\* A FrameProcessor is the record of its fields, its PersonTracker's
\* fields included.  A FrameResult keeps frame_id and, per
\* person, person_id, tracking_confidence, keypoints and the velocity of
\* its metrics; angles and the other metrics do not touch the state.  A
\* call that raises returns Raised.
NoFrame == [present |-> FALSE]
Raised == [present |-> FALSE, raised |-> TRUE]
ZeroVelocity == [x |-> Rat(0), y |-> Rat(0)]

\* n / d rounded to the closest integer, halves to the even one (d > 0).
RoundHalfEven(n, d) ==
    LET q == n \div d
        r == n % d
    IN  IF 2 * r < d THEN q
        ELSE IF 2 * r > d THEN q + 1
        ELSE IF q % 2 = 0 THEN q ELSE q + 1

\* round(v, 2)
Round2(v) == <<RoundHalfEven(v[1] * 100, v[2]), 100>>

\* a / b for b > 0
RatDiv(a, b) == <<a[1] * b[2], a[2] * b[1]>>

\* Faulty variant: fps itself.
InverseNot(n) == <<n, 1>>

\* 1.0 / fps for fps # 0, with a positive denominator.
Inverse(n) == IF n > 0 THEN <<1, n>> ELSE <<-1, -n>>

\* _serialize_keypoints (frame_processor.py:103-112): x and y rounded to
\* two decimals.
SerializeKeypoints(keypoints) ==
    [hip_center |-> <<Round2(Rat(keypoints.hip_center[1])),
                      Round2(Rat(keypoints.hip_center[2]))>>]

\* The keypoints of a tracked person as the detector gave them.
RawKeypoints(keypoints) ==
    [hip_center |-> <<Rat(keypoints.hip_center[1]), Rat(keypoints.hip_center[2])>>]

\* _calculate_center_of_mass (velocity_calculator.py:53-57): the
\* hip_center branch.
CalculateCenterOfMass(keypoints) == keypoints.hip_center

\* calculate_velocity (velocity_calculator.py:7-51).
CalculateVelocity(current_person, previous_frame_data, time_delta) ==
    LET prev == previous_frame_data.persons
        found == {p \in 1..Len(prev) : prev[p].person_id = current_person.person_id}
    IN  IF found = {} THEN ZeroVelocity
        ELSE LET previous_person == prev[CHOOSE p \in found : \A q \in found : p <= q]
                 current_center == CalculateCenterOfMass(current_person.keypoints)
                 previous_center == CalculateCenterOfMass(previous_person.keypoints)
             IN  IF RatLess(Rat(0), time_delta)
                 THEN [x |-> Round2(RatDiv(RatSub(current_center[1], previous_center[1]),
                                           time_delta)),
                       y |-> Round2(RatDiv(RatSub(current_center[2], previous_center[2]),
                                           time_delta))]
                 ELSE ZeroVelocity

\* FrameProcessor.__init__ (frame_processor.py:14-23).
NewFrameProcessor ==
    [person_tracks |-> <<>>, next_person_id |-> 0, tracker_frame_count |-> 0,
     previous_frame_data |-> NoFrame, frame_count |-> 0, fps |-> DefaultFps]

\* Faulty variant: reset() that keeps the previous frame.
ResetFrameProcessorKeepPrevious(p) ==
    [p EXCEPT !.person_tracks = <<>>, !.next_person_id = 0,
              !.tracker_frame_count = 0, !.frame_count = 0]

\* FrameProcessor.reset (frame_processor.py:129-133) with
\* PersonTracker.reset (person_tracker.py:124-128).
ResetFrameProcessor(p) ==
    [p EXCEPT !.person_tracks = <<>>, !.next_person_id = 0,
              !.tracker_frame_count = 0,
              !.previous_frame_data = NoFrame, !.frame_count = 0]

\* process_frame(frame, timestamp) (frame_processor.py:25-101) on the
\* FrameProcessor p, dets being what the detector finds in the frame: the
\* FrameProcessor after the call and what the call returns.  The default
\* timestamp (line 40) and the time_delta argument (line 65) divide by fps.
ProcessFrame(p, dets, timestamp) ==
    IF timestamp = None /\ p.fps = 0 THEN [fp |-> p, ret |-> Raised]
    ELSE LET o == UpdateOutcome(p.person_tracks, p.next_person_id, dets)
             tracked_persons == o.result
             updated == [p EXCEPT !.person_tracks = o.tracks,
                                  !.next_person_id = o.next_person_id,
                                  !.tracker_frame_count = @ + 1]
         IN  IF p.previous_frame_data.present /\ tracked_persons # <<>> /\ p.fps = 0
             THEN [fp |-> updated, ret |-> Raised]
             ELSE LET processed_persons ==
                        [k \in 1..Len(tracked_persons) |->
                           LET person == tracked_persons[k]
                           IN  [person_id |-> person.person_id,
                                tracking_confidence |-> person.tracking_confidence,
                                keypoints |-> SerializeKeypoints(person.keypoints),
                                velocity |->
                                  IF p.previous_frame_data.present
                                  THEN CalculateVelocity(
                                         [person_id |-> person.person_id,
                                          keypoints |-> RawKeypoints(person.keypoints)],
                                         p.previous_frame_data, Inverse(p.fps))
                                  ELSE ZeroVelocity]]
                      frame_data ==
                        [present |-> TRUE,
                         frame_id |-> p.frame_count,
                         persons |-> processed_persons]
                  IN  [fp |-> [updated EXCEPT !.previous_frame_data = frame_data,
                                             !.frame_count = @ + 1],
                       ret |-> frame_data]

\* Where the one person of a scene can stand: three places 5 px apart.
FpCenters == {<<100, 100>>, <<105, 100>>, <<110, 100>>}
FpInputs == SeqsUpTo({DetectionAt(c) : c \in FpCenters}, 1)
FpsInputs == {DefaultFps, 0, -DefaultFps}

\* --------------------------------------------- VideoProcessor: the jobs
\* A video is its fps and, per frame, what the detector finds in it.  A
\* job is a call of _process_video_sync with start_time and end_time None,
\* skip_frames 1 and apply_filter False, run by a thread of the executor
\* (video_processor.py:17, 46-55).
JobIds == 1..MaxJobs
VideoFps == {DefaultFps, 0}
Videos == {[fps |-> f, frames |-> fr] : f \in VideoFps, fr \in SeqsUpTo(FpInputs, MaxVideoLen)}
NoJob == [status |-> "none"]

\* The loop of _process_video_sync (lines 91-101) from frame i on, on the
\* FrameProcessor p: what the job returns, "failed" when a frame raises.
RECURSIVE RunLoop(_, _, _, _)
RunLoop(p, video, i, raw_results_) ==
    IF i > Len(video.frames) THEN [status |-> "done", results |-> raw_results_]
    ELSE IF video.fps = 0 THEN [status |-> "failed", results |-> <<>>]
    ELSE LET o == ProcessFrame(p, video.frames[i], <<i - 1, video.fps>>)
         IN  IF ~o.ret.present THEN [status |-> "failed", results |-> <<>>]
             ELSE RunLoop(o.fp, video, i + 1, Append(raw_results_, o.ret))

\* What the job returns for the video when it runs alone on a new
\* VideoProcessor.
RunAlone(video) ==
    RunLoop([NewFrameProcessor EXCEPT !.fps = video.fps], video, 1, <<>>)

\* --------------------------------------------------------- FilterFactory
\* (src/src/processing/filters.py)  What a filter function does with a
\* series: it raises, or it returns a series; by says which filter made
\* it ("none" when the series is the input as given).  The output of the
\* Butterworth and Gaussian filters is kept as the input it was made from.
FilterRaised == [raised |-> TRUE]
FilterReturn(by, data) == [raised |-> FALSE, by |-> by, data |-> data]

\* cutoff / nyquist with nyquist = fps / 2 (lines 41-42), fps # 0.
NormalCutoff(fps) == IF fps > 0 THEN <<2 * Cutoff, fps>> ELSE <<-2 * Cutoff, -fps>>

\* butterworth_filter (lines 32-56).  The cutoff is normalised outside the
\* try: cutoff / (fps / 2) divides by zero for fps = 0, and signal.butter
\* rejects a critical frequency that is not above 0.  filtfilt, inside
\* the try, rejects a series not longer than its padding.
ButterworthFilter(fps, data) ==
    IF Len(data) < MinButterworth THEN FilterReturn("none", data)
    ELSE IF fps = 0 THEN FilterRaised
    ELSE IF RatLess(NormalCutoff(fps), Rat(1)) /\ ~RatLess(Rat(0), NormalCutoff(fps))
    THEN FilterRaised
    ELSE IF Len(data) > PadLen THEN FilterReturn("butterworth", data)
    ELSE FilterReturn("none", data)

\* gaussian_filter (lines 62-71).
GaussianFilter(data) ==
    IF Len(data) < MinKernel THEN FilterReturn("none", data)
    ELSE FilterReturn("gaussian", data)

\* The function get_filter(filter_type, fps) returns (lines 9-28), applied
\* to data.
GetFilter(type, fps, data) ==
    IF type = "butterworth" THEN ButterworthFilter(fps, data)
    ELSE IF type = "gaussian" THEN GaussianFilter(data)
    ELSE IF type = "median"
    THEN (IF Len(data) < MinKernel THEN FilterReturn("none", data)
          ELSE FilterReturn("median", MedianFilter(data)))
    ELSE FilterReturn("none", data)

FilterTypes == {"butterworth", "gaussian", "median", "other"}
SampleRates == {DefaultFps, 2 * Cutoff, Cutoff, 0, -DefaultFps}
SeriesOf(n) == [i \in 1..n |-> SignalAt(i)]

\* --------------------------------- VideoProcessor: the frame range of a job
\* _process_video_sync(video_path, start_time, end_time, skip_frames,
\* False, filter_type) (video_processor.py:57-121).  Times are exact
\* fractions of a second; frame i of a video shows one person, 5 px
\* further right than frame i - 1.

\* int(x) for a fraction x with a positive denominator: towards zero.
IntOf(x) == IF x[1] >= 0 THEN x[1] \div x[2] ELSE -((-x[1]) \div x[2])

\* int(t * fps) if t else default (lines 81-82): None and 0.0 are falsy.
FrameOf(t, fps, default) ==
    IF t = None THEN default
    ELSE IF RatEq(t, Rat(0)) THEN default
    ELSE IntOf(RatMul(t, Rat(fps)))

\* Faulty variant: the frames after a retained one are the analyzed ones.
RetainedOffByOne(frame_count_, skip_frames) == frame_count_ % skip_frames = 1 % skip_frames

\* frame_count % skip_frames == 0 (line 96).
Retained(frame_count_, skip_frames) == frame_count_ % skip_frames = 0

\* (start_frame + frame_count) / fps (line 97).
TimestampOf(start_frame, frame_count_, fps) == <<start_frame + frame_count_, fps>>

\* What the detector finds in frame i of the video.
SceneAt(i) == <<DetectionAt(<<100 + 5 * i, 100>>)>>

Times == {None} \cup {<<n, 2>> : n \in 0..MaxTime}
RangeFps == {1, 2}

\* ------------------------------------------------------ WebSocketManager
\* (src/src/api/websocket.py, websocket_endpoint of src/src/main.py)
\* A websocket is a number of WsIds, which is also its id(); NoId is the
\* None the endpoint leaves websocket_id at.  frame_data is what the
\* detector finds in the decoded frame, or Undecodable.
WsIds == 1..MaxConns
NoId == 0
Undecodable == [decoded |-> FALSE]
WsInputs == {[decoded |-> TRUE, persons |-> dets] : dets \in FpInputs} \cup {Undecodable}
InvalidFrame == [present |-> FALSE, error |-> "Invalid frame data"]

\* self.frame_processors and the result once processor.process_frame has
\* returned o (websocket.py:42-49): a stored processor keeps its new state.
WsAfter(processors, websocket_id, o) ==
    [frame_processors |->
        IF websocket_id \in DOMAIN processors
        THEN [processors EXCEPT ![websocket_id] = o.fp] ELSE processors,
     result |-> o.ret]

\* WebSocketManager.process_frame(frame_data, websocket_id)
\* (websocket.py:31-52): self.frame_processors after the call and what the
\* call returns.
WsProcessFrame(processors, frame_data, websocket_id) ==
    IF ~frame_data.decoded
    THEN [frame_processors |-> processors, result |-> InvalidFrame]
    ELSE \* "Get processor for this connection": the stored one, else a new one
         \* that is not stored
         WsAfter(processors, websocket_id,
                 ProcessFrame(IF websocket_id \in DOMAIN processors
                              THEN processors[websocket_id] ELSE NewFrameProcessor,
                              frame_data.persons, None))

\* What one FrameProcessor, created at connect, returns for the frames of
\* a connection, from frame i on.
RECURSIVE RunStream(_, _, _)
RunStream(p, frames, i) ==
    IF i > Len(frames) THEN <<>>
    ELSE IF ~frames[i].decoded THEN <<InvalidFrame>> \o RunStream(p, frames, i + 1)
    ELSE LET o == ProcessFrame(p, frames[i].persons, None)
         IN  <<o.ret>> \o RunStream(o.fp, frames, i + 1)

\* ------------------------------------------------------- AngleCalculator
\* (src/src/core/angle_calculator.py, src/src/utils/angle_definitions.py)
\* keypoints is a function from the names it holds to points <<x, y>>.
\* The value of an angle is kept as what determines it: for arccos the dot
\* product and the squared norms of the two vectors, for arctan2 dy and dx
\* (arctan2(0, 0) is 0), with the definition's offset and scale; NaN is
\* NotANumber and None is NoAngle.  Of the catalog, one definition of each
\* shape is kept.
NotANumber == [nan |-> TRUE]
NoAngle == [absent |-> TRUE]

JOINT_ANGLES ==
    [right_ankle |-> [points |-> <<"right_knee", "right_ankle", "right_toe", "right_heel">>,
                      type |-> "dorsiflexion", offset |-> 90, scale |-> 1],
     right_knee |-> [points |-> <<"right_ankle", "right_knee", "right_hip">>,
                     type |-> "flexion", offset |-> -180, scale |-> 1],
     right_hip |-> [points |-> <<"right_knee", "right_hip", "hip_center", "neck">>,
                    type |-> "flexion", offset |-> 0, scale |-> -1]]

SEGMENT_ANGLES ==
    [right_foot |-> [points |-> <<"right_toe", "right_heel">>,
                     type |-> "horizontal", offset |-> 0, scale |-> -1],
     trunk |-> [points |-> <<"neck", "hip_center">>,
                type |-> "horizontal", offset |-> 0, scale |-> -1]]

\* skeleton_definitions.py:57-75, for the names of these definitions.
KEYPOINT_MAP ==
    [right_hip |-> "right_hip", right_knee |-> "right_knee",
     right_ankle |-> "right_ankle", left_heel |-> "left_heel",
     right_heel |-> "right_heel", left_toe |-> "left_foot_index",
     right_toe |-> "right_foot_index"]

LeftNames == {"left_heel", "left_toe", "left_foot_index"}
RightNames == {"right_hip", "right_knee", "right_ankle", "right_heel", "right_toe",
               "right_foot_index"}

\* _adjust_for_direction (angle_calculator.py:42-67); a toe or heel that
\* is not there raises KeyError, and the keypoints are returned as given.
AdjustForDirection(keypoints) ==
    IF ~({"left_toe", "left_heel", "right_toe", "right_heel"} \subseteq DOMAIN keypoints)
    THEN keypoints
    ELSE LET left_orientation == keypoints["left_toe"][1] - keypoints["left_heel"][1]
             right_orientation == keypoints["right_toe"][1] - keypoints["right_heel"][1]
         IN  [name \in DOMAIN keypoints |->
                 IF \/ left_orientation < 0 /\ name \in LeftNames
                    \/ right_orientation < 0 /\ name \in RightNames
                 THEN <<-keypoints[name][1], keypoints[name][2]>>
                 ELSE keypoints[name]]

\* "Map point names to keypoints" (lines 76-83 and 118-125), for one name.
PointOf(keypoints, point_name) ==
    IF point_name \in DOMAIN keypoints THEN keypoints[point_name]
    ELSE IF point_name \in DOMAIN KEYPOINT_MAP
    THEN (IF KEYPOINT_MAP[point_name] \in DOMAIN keypoints
          THEN keypoints[KEYPOINT_MAP[point_name]] ELSE None)
    ELSE None

\* The angle between two vectors (angle_definitions.py:164-170, 181-187).
AngleBetween(v1, v2) ==
    IF v1 = <<0, 0>> \/ v2 = <<0, 0>> THEN NotANumber
    ELSE [nan |-> FALSE, of |-> "arccos",
          dot |-> v1[1] * v2[1] + v1[2] * v2[2],
          norm1 |-> v1[1] * v1[1] + v1[2] * v1[2],
          norm2 |-> v2[1] * v2[1] + v2[2] * v2[2]]

\* calculate_angle_2d(p1, p2, p3=None) (angle_definitions.py:148-172).
CalculateAngle2d(p1, p2, p3) ==
    IF p3 = None
    THEN [nan |-> FALSE, of |-> "arctan2", dy |-> p2[2] - p1[2], dx |-> p2[1] - p1[1]]
    ELSE AngleBetween(<<p1[1] - p2[1], p1[2] - p2[2]>>, <<p3[1] - p2[1], p3[2] - p2[2]>>)

\* calculate_ankle_angle (angle_definitions.py:174-189).
CalculateAnkleAngle(knee, ankle, toe, heel) ==
    AngleBetween(<<toe[1] - heel[1], toe[2] - heel[2]>>,
                 <<knee[1] - ankle[1], knee[2] - ankle[2]>>)

\* "Apply offset and scale" (lines 99-104 and 135-140).
Finish(angle, angle_def) ==
    IF ~angle.nan
    THEN [absent |-> FALSE, angle |-> angle,
          offset |-> angle_def.offset, scale |-> angle_def.scale]
    ELSE NoAngle

\* _calculate_joint_angles (lines 69-109), for one definition.
JointAngle(keypoints, angle_def) ==
    LET points == [k \in 1..Len(angle_def.points) |->
                      PointOf(keypoints, angle_def.points[k])]
    IN  IF \E k \in 1..3 : points[k] = None THEN NoAngle
        ELSE IF angle_def.type = "dorsiflexion" /\ Len(points) >= 4 /\ points[4] # None
        THEN Finish(CalculateAnkleAngle(points[1], points[2], points[3], points[4]),
                    angle_def)
        ELSE Finish(CalculateAngle2d(points[1], points[2], points[3]), angle_def)

\* _calculate_segment_angles (lines 111-145), for one definition.
SegmentAngle(keypoints, angle_def) ==
    LET points == [k \in 1..Len(angle_def.points) |->
                      PointOf(keypoints, angle_def.points[k])]
    IN  IF \E k \in 1..Len(points) : points[k] = None THEN NoAngle
        ELSE Finish(CalculateAngle2d(points[1], points[2], None), angle_def)

\* calculate_angles (lines 20-40), flip_left_right being True (line 15).
CalculateAngles(keypoints) ==
    LET adjusted == AdjustForDirection(keypoints)
    IN  [joint_angles |->
            [name \in DOMAIN JOINT_ANGLES |-> JointAngle(adjusted, JOINT_ANGLES[name])],
         segment_angles |->
            [name \in DOMAIN SEGMENT_ANGLES |->
                SegmentAngle(adjusted, SEGMENT_ANGLES[name])]]

\* The keypoints given to calculate_angles: each name is left out or
\* stands at one of two places; the toes go by their common name or by
\* the detector's (foot_index).
AnglePlaces == {<<1, 1>>, <<2, 1>>}
AngleNames == {"right_knee", "right_ankle", "right_toe", "right_heel", "right_hip",
               "hip_center", "neck", "left_toe", "left_heel"}
DetectorName(name) ==
    IF name = "right_toe" THEN "right_foot_index"
    ELSE IF name = "left_toe" THEN "left_foot_index" ELSE name
AngleInputsOf(names) == UNION {[held -> AnglePlaces] : held \in SUBSET names}
KeypointSets ==
    AngleInputsOf(AngleNames) \cup AngleInputsOf({DetectorName(n) : n \in AngleNames})

\* ---------------------------------------------------------------- actions
TrackerInit ==
    /\ person_tracks = <<>>
    /\ next_person_id = 0
    /\ frame_count = 0
    /\ op = "init"
    /\ detections = <<>>
    /\ result = <<>>
    /\ created = <<>>
    /\ steady = TRUE
    /\ issued = {}
    /\ epoch_issued = {}
    /\ history = <<>>

\* No interpolation call at hand.
InterpIdle ==
    /\ interp_call = "none"
    /\ interp_in = <<>>
    /\ max_gap_size = 0
    /\ interp_out = <<>>
    /\ interp_done = FALSE

\* No video job at hand.
VideoIdle ==
    /\ raw_results = <<>>
    /\ apply_filter = FALSE
    /\ filter_type = "none"
    /\ video_done = FALSE
    /\ video_out = <<>>
    /\ filter_in = {}
    /\ held_results = <<>>

\* A FrameProcessor as constructed, nothing called on it.
FpIdle ==
    /\ fp = NewFrameProcessor
    /\ fp_op = "init"
    /\ fp_ret = NoFrame
    /\ fp_before = NewFrameProcessor
    /\ fp_log = <<>>
    /\ fp_reset = [seen |-> FALSE, dirty |-> FALSE]

\* A VideoProcessor as constructed (video_processor.py:14-17), no job given.
JobsIdle ==
    /\ frame_processor = NewFrameProcessor
    /\ jobs = [j \in JobIds |-> NoJob]

\* A WebSocketManager as constructed (websocket.py:13-15).
WsIdle ==
    /\ active_connections = <<>>
    /\ frame_processors = <<>>
    /\ ws_frames = [c \in WsIds |-> [connected |-> FALSE, frames |-> <<>>]]
    /\ ws_results = [c \in WsIds |-> <<>>]
    /\ ws_open = {}

\* No calculate_angles call at hand.
AngleIdle ==
    /\ angle_keypoints = <<>>
    /\ angle_out = <<>>
    /\ angle_done = FALSE

\* No _process_video_sync call with a frame range at hand.
RangeIdle ==
    /\ cap = <<>>
    /\ job_args = <<>>
    /\ job_loop = <<>>
    /\ job_reads = <<>>
    /\ job_calls = <<>>
    /\ job_ret = <<>>

\* No filter function at hand.
FilterIdle ==
    /\ filt_type = <<>>
    /\ filt_fps = <<>>
    /\ filt_data = <<>>
    /\ filt_out = <<>>
    /\ filt_done = <<>>

\* No calculate_person_metrics call at hand.
MetricsIdle ==
    /\ metrics_keypoints = <<>>
    /\ metrics_out = <<>>
    /\ metrics_done = <<>>

RestIdle == VideoIdle /\ FpIdle /\ JobsIdle /\ WsIdle /\ AngleIdle /\ RangeIdle /\ FilterIdle /\ MetricsIdle

Init == TrackerInit /\ InterpIdle /\ RestIdle

\* One call of PersonTracker.update(dets), within the model's bounds.
UpdateWith(dets, max_frames) ==
    /\ frame_count < max_frames
    /\ \E o \in {UpdateOutcome(person_tracks, next_person_id, dets)} :
        /\ o.next_person_id <= MaxIds
        /\ frame_count' = frame_count + 1
        /\ person_tracks' = o.tracks
        /\ next_person_id' = o.next_person_id
        /\ op' = "update"
        /\ detections' = dets
        /\ result' = o.result
        /\ created' = o.created
        /\ steady' = (/\ steady
                       /\ Len(dets) = 1
                       /\ \/ frame_count = 0
                          \/ Norm(CalculateCenter(detections[1]),
                                  CalculateCenter(dets[1])) < max_distance_threshold)
        /\ issued' = issued \cup Range(o.created)
        /\ epoch_issued' = epoch_issued \cup Range(o.created)
        /\ history' = NextHistory(history, o.result)
        /\ UNCHANGED <<interp_vars, rest_vars>>

Update == \E dets \in FrameInputs : UpdateWith(dets, MaxFrames)

UpdateSparse == \E dets \in SparseInputs : UpdateWith(dets, MaxFramesSparse)

Reset ==
    /\ person_tracks' = <<>>
    /\ next_person_id' = 0
    /\ frame_count' = 0
    /\ op' = "reset"
    /\ detections' = <<>>
    /\ result' = <<>>
    /\ created' = <<>>
    /\ steady' = TRUE
    /\ epoch_issued' = {}
    /\ history' = <<>>
    /\ UNCHANGED issued
    /\ UNCHANGED <<interp_vars, rest_vars>>

Next == Update \/ Reset

Spec == Init /\ [][Next]_vars

\* Long runs of sparse frames: the ones that reach the eviction limit.
NextSparse == UpdateSparse \/ Reset

SpecSparse == Init /\ [][NextSparse]_vars

\* A call of interpolate_angles or of interpolate_missing_keypoints, on any
\* sequence within the bounds.
InitInterp ==
    /\ TrackerInit
    /\ max_gap_size \in 0..MaxGap
    /\ \/ interp_call = "angles" /\ interp_in \in AngleInputs
       \/ interp_call = "keypoints" /\ interp_in \in KeypointInputs
    /\ interp_out = <<>>
    /\ interp_done = FALSE
    /\ RestIdle

CallInterpolateAngles ==
    /\ interp_call = "angles"
    /\ ~interp_done
    /\ interp_out' = InterpolateAngles(interp_in, max_gap_size)
    /\ interp_done' = TRUE
    /\ UNCHANGED <<interp_call, interp_in, max_gap_size>>
    /\ UNCHANGED <<tracker_vars, rest_vars>>

CallInterpolateMissingKeypoints ==
    /\ interp_call = "keypoints"
    /\ ~interp_done
    /\ interp_out' = InterpolateMissingKeypoints(interp_in, max_gap_size)
    /\ interp_done' = TRUE
    /\ UNCHANGED <<interp_call, interp_in, max_gap_size>>
    /\ UNCHANGED <<tracker_vars, rest_vars>>

NextInterp == CallInterpolateAngles \/ CallInterpolateMissingKeypoints

SpecInterp == InitInterp /\ [][NextInterp]_vars

\* A video job, _process_video_sync (video_processor.py:57-121), from its
\* arguments on: the loop collects one FrameResult per retained frame, then
\* the results are post-processed and returned.
InitVideo ==
    /\ TrackerInit
    /\ InterpIdle
    /\ raw_results = <<>>
    /\ apply_filter \in BOOLEAN
    /\ filter_type \in {"median", "none"}
    /\ video_done = FALSE
    /\ video_out = <<>>
    /\ filter_in = {}
    /\ held_results = <<>>
    /\ FpIdle
    /\ JobsIdle
    /\ WsIdle
    /\ AngleIdle
    /\ RangeIdle
    /\ FilterIdle
    /\ MetricsIdle

\* One pass of the loop (lines 91-101) that retains the frame.
CollectFrame ==
    /\ ~video_done
    /\ Len(raw_results) < MaxJobFrames
    /\ \E kind \in FrameKinds :
        \E r \in {Append(raw_results, FrameResultOf(kind, Len(raw_results)))} :
            /\ Cardinality({f \in 1..Len(r) : Irregular(r[f])}) <= MaxIrregular
            /\ raw_results' = r
            /\ held_results' = r
    /\ UNCHANGED <<apply_filter, filter_type, video_done, video_out, filter_in>>
    /\ UNCHANGED <<tracker_vars, interp_vars, fp_vars, jobs_vars, ws_vars, angle_vars, range_vars, filt_vars, metrics_vars>>

\* The end of the job (lines 103-121).
PostProcess ==
    /\ ~video_done
    /\ video_done' = TRUE
    /\ IF apply_filter /\ EnoughFrames(raw_results)
       THEN /\ video_out' = ApplyFiltering(raw_results, filter_type)
            /\ filter_in' = FilterCalls(ExtractPersonsTimeseries(raw_results))
            /\ held_results' =
                   WrittenThrough(raw_results,
                       FilterPersonsData(ExtractPersonsTimeseries(raw_results),
                                         filter_type))
       ELSE /\ video_out' = raw_results
            /\ filter_in' = {}
            /\ UNCHANGED held_results
    /\ UNCHANGED <<raw_results, apply_filter, filter_type>>
    /\ UNCHANGED <<tracker_vars, interp_vars, fp_vars, jobs_vars, ws_vars, angle_vars, range_vars, filt_vars, metrics_vars>>

NextVideo == CollectFrame \/ PostProcess

SpecVideo == InitVideo /\ [][NextVideo]_vars

\* One FrameProcessor and the calls of its methods.
InitFrame ==
    TrackerInit /\ InterpIdle /\ VideoIdle /\ FpIdle /\ JobsIdle /\ WsIdle /\ AngleIdle /\ RangeIdle /\ FilterIdle /\ MetricsIdle

CallProcessFrame ==
    /\ Len(fp_log) < MaxFpFrames
    /\ \E dets \in FpInputs, timestamp \in {None, <<fp.frame_count, DefaultFps>>} :
        \E o \in {ProcessFrame(fp, dets, timestamp)} :
            /\ o.fp.next_person_id <= MaxIds
            /\ fp' = o.fp
            /\ fp_ret' = o.ret
            /\ fp_log' = Append(fp_log, [dets |-> dets, fps |-> fp.fps, ret |-> o.ret])
    /\ fp_op' = "process_frame"
    /\ fp_before' = fp
    /\ UNCHANGED fp_reset
    /\ UNCHANGED <<tracker_vars, interp_vars, video_vars, jobs_vars, ws_vars, angle_vars, range_vars, filt_vars, metrics_vars>>

CallReset ==
    /\ fp' = ResetFrameProcessor(fp)
    /\ fp_op' = "reset"
    /\ fp_ret' = NoFrame
    /\ fp_before' = fp
    /\ fp_log' = <<>>
    /\ fp_reset' = [seen |-> TRUE,
                    dirty |-> fp.previous_frame_data.present /\ fp.person_tracks # <<>>]
    /\ UNCHANGED <<tracker_vars, interp_vars, video_vars, jobs_vars, ws_vars, angle_vars, range_vars, filt_vars, metrics_vars>>

\* set_fps (frame_processor.py:135-137)
CallSetFps ==
    /\ \E fps \in FpsInputs : fp' = [fp EXCEPT !.fps = fps]
    /\ fp_op' = "set_fps"
    /\ fp_ret' = NoFrame
    /\ fp_before' = fp
    /\ UNCHANGED <<fp_log, fp_reset>>
    /\ UNCHANGED <<tracker_vars, interp_vars, video_vars, jobs_vars, ws_vars, angle_vars, range_vars, filt_vars, metrics_vars>>

NextFrame == CallProcessFrame \/ CallReset \/ CallSetFps

SpecFrame == InitFrame /\ [][NextFrame]_vars

\* One VideoProcessor and the jobs given to it; the executor's threads
\* take turns between two passes of their loops.
InitJobs ==
    TrackerInit /\ InterpIdle /\ VideoIdle /\ FpIdle /\ JobsIdle /\ WsIdle /\ AngleIdle /\ RangeIdle /\ FilterIdle /\ MetricsIdle

\* A job starts: the video is opened and set_fps called (lines 67-88).
StartJob ==
    \E j \in JobIds, video \in Videos :
        /\ jobs[j].status = "none"
        /\ jobs' = [jobs EXCEPT ![j] = [status |-> "running", video |-> video,
                                        frame_count |-> 0, raw_results |-> <<>>]]
        /\ frame_processor' = [frame_processor EXCEPT !.fps = video.fps]
        /\ UNCHANGED <<tracker_vars, interp_vars, video_vars, fp_vars, ws_vars, angle_vars, range_vars, filt_vars, metrics_vars>>

\* One pass of a job's loop (lines 91-101): the frame is read and given to
\* the shared FrameProcessor with the timestamp (start_frame + frame_count)
\* / fps; an exception ends the job.
JobFrame ==
    \E j \in JobIds :
        /\ jobs[j].status = "running"
        /\ jobs[j].frame_count < Len(jobs[j].video.frames)
        /\ IF jobs[j].video.fps = 0
           THEN /\ jobs' = [jobs EXCEPT ![j].status = "failed", ![j].raw_results = <<>>]
                /\ UNCHANGED frame_processor
           ELSE \E o \in {ProcessFrame(frame_processor,
                                        jobs[j].video.frames[jobs[j].frame_count + 1],
                                        <<jobs[j].frame_count, jobs[j].video.fps>>)} :
                    /\ frame_processor' = o.fp
                    /\ jobs' = IF o.ret.present
                               THEN [jobs EXCEPT ![j].frame_count = @ + 1,
                                                 ![j].raw_results = Append(@, o.ret)]
                               ELSE [jobs EXCEPT ![j].status = "failed",
                                                 ![j].raw_results = <<>>]
        /\ UNCHANGED <<tracker_vars, interp_vars, video_vars, fp_vars, ws_vars, angle_vars, range_vars, filt_vars, metrics_vars>>

\* The loop is over and the job returns its results (lines 103-121).
JobReturn ==
    \E j \in JobIds :
        /\ jobs[j].status = "running"
        /\ jobs[j].frame_count = Len(jobs[j].video.frames)
        /\ jobs' = [jobs EXCEPT ![j].status = "done"]
        /\ UNCHANGED frame_processor
        /\ UNCHANGED <<tracker_vars, interp_vars, video_vars, fp_vars, ws_vars, angle_vars, range_vars, filt_vars, metrics_vars>>

NextJobs == StartJob \/ JobFrame \/ JobReturn

SpecJobs == InitJobs /\ [][NextJobs]_vars

\* The WebSocketManager of main.py and its connections.
InitWs ==
    TrackerInit /\ InterpIdle /\ VideoIdle /\ FpIdle /\ JobsIdle /\ WsIdle /\ AngleIdle /\ RangeIdle /\ FilterIdle /\ MetricsIdle

\* connect (websocket.py:17-22), for a websocket not seen before.
Connect ==
    \E websocket \in WsIds :
        /\ websocket \notin Range(active_connections)
        /\ websocket \notin DOMAIN frame_processors
        /\ ~ws_frames[websocket].connected
        /\ active_connections' = Append(active_connections, websocket)
        /\ frame_processors' =
               [c \in DOMAIN frame_processors \cup {websocket} |->
                   IF c = websocket THEN NewFrameProcessor ELSE frame_processors[c]]
        /\ ws_frames' = [ws_frames EXCEPT ![websocket].connected = TRUE]
        /\ ws_open' = ws_open \cup {websocket}
        /\ UNCHANGED ws_results
        /\ UNCHANGED <<tracker_vars, interp_vars, video_vars, fp_vars, jobs_vars, angle_vars, range_vars, filt_vars, metrics_vars>>

\* One pass of the endpoint's loop (main.py:60-63): the bytes received are
\* given to ws_manager.process_frame(data), without a websocket_id, and
\* the result is sent back.
ReceiveFrame ==
    \E websocket \in ws_open, frame_data \in WsInputs :
        /\ Len(ws_results[websocket]) < MaxWsFrames
        /\ \E o \in {WsProcessFrame(frame_processors, frame_data, NoId)} :
            /\ frame_processors' = o.frame_processors
            /\ ws_results' = [ws_results EXCEPT ![websocket] = Append(@, o.result)]
        /\ ws_frames' = [ws_frames EXCEPT ![websocket].frames = Append(@, frame_data)]
        /\ UNCHANGED <<active_connections, ws_open>>
        /\ UNCHANGED <<tracker_vars, interp_vars, video_vars, fp_vars, jobs_vars, angle_vars, range_vars, filt_vars, metrics_vars>>

\* disconnect (websocket.py:24-29): self after disconnect(websocket).
AfterDisconnect(connections, processors, websocket) ==
    [active_connections |-> SelectSeq(connections, LAMBDA c : c # websocket),
     frame_processors |-> [c \in DOMAIN processors \ {websocket} |-> processors[c]]]

\* The endpoint's loop ends with WebSocketDisconnect (main.py:64-65).
Disconnect ==
    \E websocket \in ws_open :
        /\ \E o \in {AfterDisconnect(active_connections, frame_processors, websocket)} :
            /\ active_connections' = o.active_connections
            /\ frame_processors' = o.frame_processors
        /\ ws_open' = ws_open \ {websocket}
        /\ UNCHANGED <<ws_frames, ws_results>>
        /\ UNCHANGED <<tracker_vars, interp_vars, video_vars, fp_vars, jobs_vars, angle_vars, range_vars, filt_vars, metrics_vars>>

\* The endpoint's loop ends with another exception, such as a send that
\* fails (main.py:66-68): the handler sends the error to the client and
\* then disconnects; when that send fails as well, the exception leaves
\* the handler before disconnect is called.
EndpointError ==
    \E websocket \in ws_open, error_sent \in BOOLEAN :
        /\ IF error_sent
           THEN \E o \in {AfterDisconnect(active_connections, frame_processors,
                                           websocket)} :
                    /\ active_connections' = o.active_connections
                    /\ frame_processors' = o.frame_processors
           ELSE UNCHANGED <<active_connections, frame_processors>>
        /\ ws_open' = ws_open \ {websocket}
        /\ UNCHANGED <<ws_frames, ws_results>>
        /\ UNCHANGED <<tracker_vars, interp_vars, video_vars, fp_vars, jobs_vars, angle_vars, range_vars, filt_vars, metrics_vars>>

NextWs == Connect \/ ReceiveFrame \/ Disconnect \/ EndpointError

SpecWs == InitWs /\ [][NextWs]_vars

\* One _process_video_sync call on a new VideoProcessor, for any video of
\* up to MaxTotalFrames frames, openable or not, and any frame range.
InitRange ==
    /\ TrackerInit /\ InterpIdle /\ VideoIdle /\ FpIdle /\ WsIdle /\ AngleIdle
    /\ FilterIdle
    /\ MetricsIdle
    /\ frame_processor = NewFrameProcessor
    /\ jobs = [j \in JobIds |-> NoJob]
    /\ cap \in [opened : BOOLEAN, fps : RangeFps, total_frames : 0..MaxTotalFrames,
                 pos : {0}]
    /\ job_args \in [start_time : Times, end_time : Times, skip_frames : 1..MaxSkip]
    /\ job_loop = [pc |-> "start", start_frame |-> 0, end_frame |-> 0,
                   frame_count |-> 0, raw_results |-> <<>>]
    /\ job_reads = <<>>
    /\ job_calls = <<>>
    /\ job_ret = [status |-> "running"]

\* Lines 67-89: the video is opened, its properties are read, set_fps is
\* called, the frame range is computed and the capture is positioned.
OpenVideo ==
    /\ job_loop.pc = "start"
    /\ IF ~cap.opened
       THEN /\ job_loop' = [job_loop EXCEPT !.pc = "raised"]
            /\ job_ret' = [status |-> "raised"]
            /\ UNCHANGED <<cap, frame_processor>>
       ELSE \E start_frame \in {FrameOf(job_args.start_time, cap.fps, 0)},
               end_frame \in {FrameOf(job_args.end_time, cap.fps, cap.total_frames)} :
                /\ frame_processor' = [frame_processor EXCEPT !.fps = cap.fps]
                /\ job_loop' = [job_loop EXCEPT !.pc = "loop",
                                                !.start_frame = start_frame,
                                                !.end_frame = end_frame]
                /\ cap' = IF start_frame > 0 THEN [cap EXCEPT !.pos = start_frame]
                          ELSE cap
                /\ UNCHANGED job_ret
    /\ UNCHANGED <<job_args, job_reads, job_calls, jobs>>
    /\ UNCHANGED <<tracker_vars, interp_vars, video_vars, fp_vars, ws_vars, angle_vars, filt_vars, metrics_vars>>

\* Lines 103-121 with apply_filter False: the results are returned.
Returned == [status |-> "returned", processed_frames |-> Len(job_loop.raw_results),
             results |-> job_loop.raw_results]

\* One pass of the loop (lines 91-101): a frame is read; a read that
\* fails breaks out of the loop and the results are returned; a retained
\* frame is given to the FrameProcessor with its timestamp.
LoopPass ==
    /\ job_loop.pc = "loop"
    /\ job_loop.frame_count < job_loop.end_frame - job_loop.start_frame
    /\ IF cap.pos >= cap.total_frames
       THEN /\ job_loop' = [job_loop EXCEPT !.pc = "returned"]
            /\ job_ret' = Returned
            /\ UNCHANGED <<cap, frame_processor, job_reads, job_calls>>
       ELSE /\ cap' = [cap EXCEPT !.pos = @ + 1]
            /\ job_reads' = Append(job_reads, cap.pos)
            /\ IF Retained(job_loop.frame_count, job_args.skip_frames)
               THEN \E timestamp \in {TimestampOf(job_loop.start_frame,
                                                  job_loop.frame_count, cap.fps)} :
                    \E o \in {ProcessFrame(frame_processor, SceneAt(cap.pos), timestamp)} :
                        /\ frame_processor' = o.fp
                        /\ job_calls' = Append(job_calls, [frame |-> cap.pos,
                                                           timestamp |-> timestamp])
                        /\ IF o.ret.present
                           THEN /\ job_loop' =
                                     [job_loop EXCEPT !.frame_count = @ + 1,
                                                      !.raw_results = Append(@, o.ret)]
                                /\ UNCHANGED job_ret
                           ELSE /\ job_loop' = [job_loop EXCEPT !.pc = "raised"]
                                /\ job_ret' = [status |-> "raised"]
               ELSE /\ job_loop' = [job_loop EXCEPT !.frame_count = @ + 1]
                    /\ UNCHANGED <<frame_processor, job_calls, job_ret>>
    /\ UNCHANGED <<job_args, jobs>>
    /\ UNCHANGED <<tracker_vars, interp_vars, video_vars, fp_vars, ws_vars, angle_vars, filt_vars, metrics_vars>>

\* The loop's condition is false (line 91): lines 103-121.
ReturnResults ==
    /\ job_loop.pc = "loop"
    /\ ~(job_loop.frame_count < job_loop.end_frame - job_loop.start_frame)
    /\ job_loop' = [job_loop EXCEPT !.pc = "returned"]
    /\ job_ret' = Returned
    /\ UNCHANGED <<cap, job_args, job_reads, job_calls, frame_processor, jobs>>
    /\ UNCHANGED <<tracker_vars, interp_vars, video_vars, fp_vars, ws_vars, angle_vars, filt_vars, metrics_vars>>

NextRange == OpenVideo \/ LoopPass \/ ReturnResults

SpecRange == InitRange /\ [][NextRange]_vars

\* A filter function from get_filter, called on a series.
InitFilter ==
    /\ TrackerInit /\ InterpIdle /\ VideoIdle /\ FpIdle /\ JobsIdle /\ WsIdle
    /\ AngleIdle /\ RangeIdle /\ MetricsIdle
    /\ filt_type \in FilterTypes
    /\ filt_fps \in SampleRates
    /\ filt_data \in {SeriesOf(n) : n \in 0..MaxSeries}
    /\ filt_out = <<>>
    /\ filt_done = FALSE

CallFilter ==
    /\ ~filt_done
    /\ filt_out' = GetFilter(filt_type, filt_fps, filt_data)
    /\ filt_done' = TRUE
    /\ UNCHANGED <<filt_type, filt_fps, filt_data>>
    /\ UNCHANGED <<tracker_vars, interp_vars, video_vars, fp_vars, jobs_vars, ws_vars, angle_vars, range_vars, metrics_vars>>

NextFilter == CallFilter

SpecFilter == InitFilter /\ [][NextFilter]_vars

\* ----------------------------------------------------- MetricsCalculator
\* (src/src/analysis/metrics.py)  keypoints is a function from the names
\* it holds to points <<x, y>>.

\* keypoints.get(name, {}).get('x', 0) (lines 117-120).
XOrZero(keypoints, name) ==
    IF name \in DOMAIN keypoints THEN keypoints[name][1] ELSE 0

\* _determine_visible_side (lines 113-132).
DetermineVisibleSide(keypoints) ==
    LET left_foot_dir == XOrZero(keypoints, "left_toe") - XOrZero(keypoints, "left_heel")
        right_foot_dir == XOrZero(keypoints, "right_toe") - XOrZero(keypoints, "right_heel")
    IN  IF left_foot_dir > FootThreshold /\ right_foot_dir > FootThreshold THEN "right"
        ELSE IF left_foot_dir < -FootThreshold /\ right_foot_dir < -FootThreshold
        THEN "left"
        ELSE "front"

\* _determine_movement_direction (lines 134-145).
DetermineMovementDirection(keypoints) ==
    LET visible_side == DetermineVisibleSide(keypoints)
    IN  IF visible_side = "right" THEN "left_to_right"
        ELSE IF visible_side = "left" THEN "right_to_left"
        ELSE "stationary"

\* The feet given to calculate_person_metrics: each toe and heel is left
\* out or stands at one of three places; the toes go by their common name
\* or by the detector's (foot_index).
FootPlaces == {<<0, 50>>, <<20, 50>>, <<40, 50>>}
FootNames == {"left_toe", "left_heel", "right_toe", "right_heel"}
FootInputsOf(names) == UNION {[held -> FootPlaces] : held \in SUBSET names}
FootSets == FootInputsOf(FootNames) \cup FootInputsOf({DetectorName(n) : n \in FootNames})

\* A call of MetricsCalculator.calculate_person_metrics (metrics.py:7-36),
\* for its visible_side and movement_direction.
InitMetrics ==
    /\ TrackerInit /\ InterpIdle /\ VideoIdle /\ FpIdle /\ JobsIdle /\ WsIdle
    /\ AngleIdle /\ RangeIdle /\ FilterIdle
    /\ metrics_keypoints \in FootSets
    /\ metrics_out = <<>>
    /\ metrics_done = FALSE

CallCalculatePersonMetrics ==
    /\ ~metrics_done
    /\ metrics_out' =
           [visible_side |-> DetermineVisibleSide(metrics_keypoints),
            movement_direction |-> DetermineMovementDirection(metrics_keypoints)]
    /\ metrics_done' = TRUE
    /\ UNCHANGED metrics_keypoints
    /\ UNCHANGED <<tracker_vars, interp_vars, video_vars, fp_vars, jobs_vars, ws_vars, angle_vars, range_vars, filt_vars>>

NextMetrics == CallCalculatePersonMetrics

SpecMetrics == InitMetrics /\ [][NextMetrics]_vars

\* A call of AngleCalculator.calculate_angles on any of the keypoint sets.
InitAngles ==
    /\ TrackerInit /\ InterpIdle /\ VideoIdle /\ FpIdle /\ JobsIdle /\ WsIdle /\ RangeIdle /\ FilterIdle /\ MetricsIdle
    /\ angle_keypoints \in KeypointSets
    /\ angle_out = <<>>
    /\ angle_done = FALSE

CallCalculateAngles ==
    /\ ~angle_done
    /\ angle_out' = CalculateAngles(angle_keypoints)
    /\ angle_done' = TRUE
    /\ UNCHANGED angle_keypoints
    /\ UNCHANGED <<tracker_vars, interp_vars, video_vars, fp_vars, jobs_vars, ws_vars, range_vars, filt_vars, metrics_vars>>

NextAngles == CallCalculateAngles

SpecAngles == InitAngles /\ [][NextAngles]_vars

\* ------------------------------------------------------- PersonTracker
Tracks == DOMAIN person_tracks

\* Ids whose track was destroyed since construction or reset.
Destroyed == {i \in epoch_issued : i \notin Tracks}

DetCenter(dets, k) == CalculateCenter(dets[k])

\* C1 as stated: over the life of the instance every id given to a newly
\* created track is greater than every id given before (so no id is given
\* twice, destroyed or not).
OrigC1 ==
    [][op' = "update" =>
         /\ \A k \in 1..Len(created') : \A j \in issued : created'[k] > j
         /\ \A k, l \in 1..Len(created') : k < l => created'[k] < created'[l]]_vars

\* C1 as amended: between construction or the last reset() and the next
\* reset(), every id given to a newly created track is greater than every
\* id given before in that period, an id of a destroyed track included.
ThmC1 ==
    [][op' = "update" =>
         /\ \A k \in 1..Len(created') : \A j \in epoch_issued : created'[k] > j
         /\ \A k, l \in 1..Len(created') : k < l => created'[k] < created'[l]]_vars

\* A track was destroyed and a later update call made a new track.
WitC1 ==
    /\ op = "update"
    /\ created # <<>>
    /\ \E j \in Destroyed : j < created[1]

\* C2: after every update call every track has 0 <= frames_lost <= 30.
ThmC2 ==
    op = "update" =>
        \A i \in Tracks :
            /\ person_tracks[i].frames_lost >= 0
            /\ person_tracks[i].frames_lost <= MaxFramesLost

\* An update call has just aged one track to the limit's edge and deleted
\* another that went past it.
WitC2 ==
    /\ op = "update"
    /\ \E i \in Tracks : person_tracks[i].frames_lost = MaxFramesLost
    /\ Destroyed # {}

\* C3: a track without a matching detection in 31 consecutive update calls
\* is gone after the 31st, and no detection of the following call gets its
\* id, wherever that detection lies.
ThmC3 ==
    [][op' = "update" =>
         /\ \A i \in DOMAIN history' :
               history'[i].misses >= MaxFramesLost + 1 => i \notin DOMAIN person_tracks'
         /\ \A i \in DOMAIN history :
               history[i].misses >= MaxFramesLost + 1 => i \notin ResultIds(result')]_vars

\* The call after the 31st miss brought a detection at the evicted track's
\* last position.
WitC3 ==
    /\ op = "update"
    /\ \E i \in DOMAIN history :
          /\ history[i].misses = MaxFramesLost + 2
          /\ \E k \in 1..Len(result) :
                /\ DetCenter(detections, result[k].det_idx) = history[i].last_center
                /\ result[k].person_id # i

\* C4: in a stream of single detections that move by less than the
\* threshold from frame to frame, every frame returns the id of the frame
\* before and the tracker never holds more than one track.
ThmC4 ==
    [][(op' = "update" /\ steady') =>
         /\ Len(result') = 1
         /\ Cardinality(DOMAIN person_tracks') <= 1
         /\ frame_count >= 1 => result'[1].person_id = result[1].person_id]_vars

\* Three frames of such a stream, the last one at a new position.
WitC4 ==
    /\ op = "update"
    /\ steady
    /\ frame_count >= 3
    /\ result[1].tracking_confidence[1] < max_distance_threshold
    /\ result[1].tracking_confidence # Half

\* C5: the result has one entry per input detection, each detection in
\* exactly one entry, and pairwise distinct person_ids.
ThmC5 ==
    op = "update" =>
        /\ Len(result) = Len(detections)
        /\ \A k, l \in 1..Len(result) :
              k # l => /\ result[k].person_id # result[l].person_id
                       /\ result[k].det_idx # result[l].det_idx
        /\ \A k \in 1..Len(result) : result[k].det_idx \in 1..Len(detections)

\* Two detections at one place near a single track: one is matched, the
\* other must not be given the same track.
WitC5 ==
    /\ op = "update"
    /\ Len(detections) = 2
    /\ detections[1] = detections[2]
    /\ \E k \in 1..Len(result) : result[k].person_id \notin Range(created)

\* Matched entries of a result: those that carry the id of a track that
\* existed before the call.
MatchedEntries(res, before) == {k \in 1..Len(res) : res[k].person_id \in before}

\* C6: a matched detection is the nearest to the track's last_center among
\* the detections the tracks iterated earlier did not claim, at a distance
\* strictly below the threshold; a detection at the threshold or farther
\* from every track is not matched and spawns a new track.
ThmC6 ==
    [][op' = "update" =>
         LET res == result'
             dets == detections'
             M == MatchedEntries(res, Tracks)
             Dist(i, k) == Norm(person_tracks[i].last_center, DetCenter(dets, k))
         IN  /\ \A k \in M :
                  LET id == res[k].person_id
                      claimed == {res[l].det_idx : l \in {m \in M : res[m].person_id < id}}
                  IN  /\ Dist(id, res[k].det_idx) < max_distance_threshold
                      /\ \A j \in 1..Len(dets) :
                            j \notin claimed => Dist(id, res[k].det_idx) <= Dist(id, j)
             /\ \A j \in 1..Len(dets) :
                  (\A i \in Tracks : Dist(i, j) >= max_distance_threshold) =>
                      \E k \in 1..Len(res) :
                          /\ res[k].det_idx = j
                          /\ res[k].person_id \in Range(created')
                          /\ res[k].person_id \notin Tracks]_vars

\* One detection was matched at a distance between 0 and the threshold and
\* another, at the threshold or beyond, made a new track.
WitC6 ==
    /\ op = "update"
    /\ Len(result) = 2
    /\ result[1].person_id \notin Range(created)
    /\ result[1].tracking_confidence[1] < max_distance_threshold
    /\ result[2].person_id \in Range(created)

\* C7: tracking_confidence is 1 - distance/threshold, within (0, 1], for an
\* entry matched to an existing track and exactly 0.5 for a new track.
ThmC7 ==
    [][op' = "update" =>
         \A k \in 1..Len(result') :
             LET e == result'[k]
                 c == e.tracking_confidence
             IN  IF e.person_id \in Tracks
                 THEN LET d == Norm(person_tracks[e.person_id].last_center,
                                    DetCenter(detections', e.det_idx))
                      IN  /\ c[2] > 0
                          /\ c[1] * max_distance_threshold
                               = (max_distance_threshold - d) * c[2]
                          /\ c[1] > 0
                          /\ c[1] <= c[2]
                 ELSE c[1] * 2 = c[2]]_vars

\* A result with a track matched where it stood (confidence 1), a track
\* matched after a move and nothing else.
WitC7 ==
    /\ op = "update"
    /\ Len(result) = 2
    /\ created = <<>>
    /\ result[1].tracking_confidence[1] = result[1].tracking_confidence[2]
    /\ result[2].tracking_confidence[1] < result[2].tracking_confidence[2]

ThmC9 ==
    op = "update" => ResultIds(result) \subseteq Tracks

\* A result with a matched and a new entry while a third track, unmatched,
\* is still held.
WitC9 ==
    /\ op = "update"
    /\ Len(result) = 2
    /\ Len(created) = 1
    /\ Tracks \ ResultIds(result) # {}

\* ------------------------------------------------------- interpolation
\* Whether the element at position k of the call's input is missing.
Missing(k) ==
    IF interp_call = "angles" THEN ~AnglePresent(interp_in[k])
    ELSE ~KeypointValid(interp_in[k])

\* The runs of missing values with a present value on both sides, as
\* <<a, b>>: a and b present, everything between them missing.
BoundedRuns ==
    {r \in (1..Len(interp_in)) \X (1..Len(interp_in)) :
        /\ r[1] + 1 < r[2]
        /\ ~Missing(r[1])
        /\ ~Missing(r[2])
        /\ \A k \in (r[1] + 1)..(r[2] - 1) : Missing(k)}

\* start + (j / (g + 1)) * (end - start), written out.
Expected(start, end, j, g) ==
    <<start[1] * end[2] * (g + 1) + j * (end[1] * start[2] - start[1] * end[2]),
      start[2] * end[2] * (g + 1)>>

\* C10: every run of g <= max_gap missing values between two present ones
\* is filled linearly, the j-th element with start + (j/(g+1)) * (end - start),
\* for an angle and for a keypoint's x, y and confidence; and
\* [1, None, None, 4] with max_gap >= 2 becomes [1, 2, 3, 4].
ThmC10 ==
    interp_done =>
        /\ Len(interp_out) = Len(interp_in)
        /\ \A r \in BoundedRuns :
              LET g == r[2] - r[1] - 1
                  s == interp_in[r[1]]
                  e == interp_in[r[2]]
              IN  g <= max_gap_size =>
                    \A j \in 1..g :
                        LET o == interp_out[r[1] + j]
                        IN  IF interp_call = "angles"
                            THEN o # None /\ RatEq(o, Expected(s, e, j, g))
                            ELSE /\ o.present
                                 /\ RatEq(o.x, Expected(s.x, e.x, j, g))
                                 /\ RatEq(o.y, Expected(s.y, e.y, j, g))
                                 /\ RatEq(o.confidence,
                                          Expected(s.confidence, e.confidence, j, g))
        /\ (interp_call = "angles"
            /\ interp_in = <<Rat(1), None, None, Rat(4)>>
            /\ max_gap_size >= 2) =>
               /\ RatEq(interp_out[1], Rat(1))
               /\ RatEq(interp_out[2], Rat(2))
               /\ RatEq(interp_out[3], Rat(3))
               /\ RatEq(interp_out[4], Rat(4))

\* interpolate_angles has returned for [1, None, None, 4] with max_gap = 2.
WitC10 ==
    /\ interp_done
    /\ interp_call = "angles"
    /\ interp_in = <<Rat(1), None, None, Rat(4)>>
    /\ max_gap_size = 2

\* Whether the element at position k of the call's result is missing.
MissingOut(k) ==
    IF interp_call = "angles" THEN ~AnglePresent(interp_out[k])
    ELSE ~KeypointValid(interp_out[k])

\* The positions of the input that lie in a run of more than n missing
\* values with a present value on both sides.
InLongRun(n) ==
    {k \in 1..Len(interp_in) :
        \E r \in BoundedRuns : r[1] < k /\ k < r[2] /\ r[2] - r[1] - 1 > n}

\* C11: no element of a run of missing values strictly longer than max_gap
\* is filled: each is returned as it was given, still missing; so
\* [1, None x 5, 4] with max_gap = 2 is returned as it is.
ThmC11 ==
    interp_done =>
        /\ \A k \in InLongRun(max_gap_size) :
              interp_out[k] = interp_in[k] /\ MissingOut(k)
        /\ (interp_in = LongGap /\ max_gap_size = 2) => interp_out = LongGap

\* interpolate_angles has returned for [1, None x 5, 4] with max_gap = 2.
WitC11 ==
    /\ interp_done
    /\ interp_call = "angles"
    /\ interp_in = LongGap
    /\ max_gap_size = 2
    /\ InLongRun(max_gap_size) = 2..6

\* The positions before the first and after the last present value of the
\* input (all of them when no value is present).
Outer ==
    {k \in 1..Len(interp_in) :
        \/ \A i \in 1..k : Missing(i)
        \/ \A i \in k..Len(interp_in) : Missing(i)}

\* C12: every position before the first present value and after the last
\* one is still missing in the result, for every max_gap.
ThmC12 ==
    interp_done =>
        \A k \in Outer : interp_out[k] = interp_in[k] /\ MissingOut(k)

\* A call has returned for a series with a leading and a trailing missing
\* run around a gap it filled.
WitC12 ==
    /\ interp_done
    /\ Outer = {1, 5}
    /\ ~Missing(2) /\ Missing(3) /\ ~Missing(4)
    /\ ~MissingOut(3)
    /\ max_gap_size = MaxGap

\* ------------------------------------------------------- video filtering
\* Whether the job at hand has returned filtered results.
Filtered == video_done /\ apply_filter /\ Len(raw_results) > MinFilterFrames

\* The filtered series of the job's tracks.
FilteredData == FilterPersonsData(ExtractPersonsTimeseries(raw_results), filter_type)

\* C13: the i-th filtered sample of a track's series replaces the values of
\* the i-th FrameResult the track appears in, also when the track is
\* absent from some frames.
ClaimC13 ==
    Filtered =>
        \A id \in PersonIds(raw_results) :
            LET app == Appearances(raw_results, id, 1)
            IN  \A i \in 1..Len(app) :
                    LET person == PersonOf(video_out[app[i]], id)
                    IN  /\ person.keypoints.hip_center.x = FilteredData[id].x[i]
                        /\ person.keypoints.hip_center.y = FilteredData[id].y[i]
                        /\ person.angles.trunk = FilteredData[id].trunk[i]

\* Whether two series hold the same values.
SameSeries(a, b) ==
    Len(a) = Len(b) /\ \A i \in 1..Len(a) : RatEq(a[i], b[i])

\* The track's keypoint and angle in every frame of the job, missing in
\* the frames the track is not in.
KeypointByFrame(id) ==
    [f \in 1..Len(raw_results) |->
        IF HasPerson(raw_results[f], id)
        THEN LET kp == PersonOf(raw_results[f], id).keypoints.hip_center
             IN  Keypoint(kp.x, kp.y, kp.confidence)
        ELSE Absent]
AngleByFrame(id) ==
    [f \in 1..Len(raw_results) |->
        IF HasPerson(raw_results[f], id)
        THEN PersonOf(raw_results[f], id).angles.trunk
        ELSE None]

\* The values of a gap-filled keypoint series, without what is still missing.
PresentKeypoints(seq) == SelectSeq(seq, LAMBDA kp : kp.present)

\* Whether the filter was given this series of this track.
HandedToFilter(id, name, data) ==
    \E c \in filter_in :
        c.person_id = id /\ c.series = name /\ SameSeries(c.data, data)

\* C14: in a job with apply_filter and more than 10 frames the series of a
\* track go through the gap filling (max_gap 10) before the filter: what the
\* filter is given is the gap-filled series, never one whose fillable gaps
\* are still missing.
ClaimC14 ==
    Filtered =>
        \A id \in PersonIds(raw_results) :
            LET kps == PresentKeypoints(
                           InterpolateMissingKeypoints(KeypointByFrame(id), DefaultMaxGap))
                angles == ValidValues(InterpolateAngles(AngleByFrame(id), DefaultMaxGap))
            IN  /\ HandedToFilter(id, "x", [i \in 1..Len(kps) |-> kps[i].x])
                /\ HandedToFilter(id, "y", [i \in 1..Len(kps) |-> kps[i].y])
                /\ angles # <<>> => HandedToFilter(id, "trunk", angles)

\* ------------------------------------------------------- FrameProcessor
\* The persons the tracker hands the last process_frame call.
LastTracked ==
    UpdateOutcome(fp_before.person_tracks, fp_before.next_person_id,
                  fp_log[Len(fp_log)].dets).result

\* The person_ids of the previous frame's result, as that call found it.
PreviousIds ==
    IF fp_before.previous_frame_data.present
    THEN {fp_before.previous_frame_data.persons[p].person_id :
             p \in 1..Len(fp_before.previous_frame_data.persons)}
    ELSE {}

IsZero(velocity) == RatEq(velocity.x, Rat(0)) /\ RatEq(velocity.y, Rat(0))

\* C17: process_frame returns a result, with velocity {0, 0}, for every
\* person of a first frame (no previous frame), for every person whose
\* person_id is not in the previous frame's result, and when the elapsed
\* time 1/fps is <= 0; it does not raise in these cases.
ClaimC17 ==
    fp_op = "process_frame" =>
        /\ ~fp_before.previous_frame_data.present =>
              /\ fp_ret.present
              /\ \A k \in 1..Len(fp_ret.persons) : IsZero(fp_ret.persons[k].velocity)
        /\ (\E k \in 1..Len(LastTracked) : LastTracked[k].person_id \notin PreviousIds)
              => fp_ret.present
        /\ fp_before.fps < 0 => fp_ret.present
        /\ fp_ret.present =>
              \A k \in 1..Len(fp_ret.persons) :
                  (\/ fp_ret.persons[k].person_id \notin PreviousIds
                   \/ fp_before.fps < 0)
                  => IsZero(fp_ret.persons[k].velocity)

\* One person walking to the right, 5 px a frame.
Walk ==
    <<<<DetectionAt(<<100, 100>>)>>, <<DetectionAt(<<105, 100>>)>>,
      <<DetectionAt(<<110, 100>>)>>>>

Walked ==
    /\ Len(fp_log) = 3
    /\ \A i \in 1..3 : fp_log[i].dets = Walk[i] /\ fp_log[i].fps = DefaultFps

\* C18: a FrameProcessor given, from its construction or reset on, three
\* frames at 30 fps with the person's hip center at (100,100), (105,100)
\* and (110,100) returns the same person_id three times, velocity {0, 0}
\* in the first frame and x-velocity 5 / (1/30) = 150 px/s (y-velocity 0)
\* in the second and the third.
ThmC18 ==
    Walked =>
        /\ \A i \in 1..3 : fp_log[i].ret.present /\ Len(fp_log[i].ret.persons) = 1
        /\ \A i \in 2..3 :
              fp_log[i].ret.persons[1].person_id = fp_log[1].ret.persons[1].person_id
        /\ IsZero(fp_log[1].ret.persons[1].velocity)
        /\ \A i \in 2..3 :
              /\ RatEq(fp_log[i].ret.persons[1].velocity.x, Rat(150))
              /\ RatEq(fp_log[i].ret.persons[1].velocity.x,
                       RatDiv(Rat(5), <<1, DefaultFps>>))
              /\ RatEq(fp_log[i].ret.persons[1].velocity.y, Rat(0))

\* The third of these frames has been processed.
WitC18 == Walked /\ fp_op = "process_frame"

\* C19: after reset() the tracker holds no track and no previous frame is
\* stored, whatever was processed before; the next process_frame call
\* returns what a new FrameProcessor (with the same fps) returns for its
\* first frame: frame_id 0 and velocity {0, 0} for every person.
ThmC19 ==
    /\ fp_op = "reset" =>
          /\ fp.person_tracks = <<>>
          /\ fp.next_person_id = 0
          /\ ~fp.previous_frame_data.present
          /\ fp.frame_count = 0
    /\ (fp_op = "process_frame" /\ fp_reset.seen /\ Len(fp_log) = 1 /\ fp_ret.present) =>
          /\ fp_ret.frame_id = 0
          /\ \A k \in 1..Len(fp_ret.persons) : IsZero(fp_ret.persons[k].velocity)
          /\ fp_ret = ProcessFrame([NewFrameProcessor EXCEPT !.fps = fp_before.fps],
                                   fp_log[1].dets, Rat(0)).ret

\* The first frame after a reset that found a track and a previous frame
\* has been processed, with a person in it.
WitC19 ==
    /\ fp_op = "process_frame"
    /\ fp_reset.seen
    /\ fp_reset.dirty
    /\ Len(fp_log) = 1
    /\ fp_ret.present
    /\ Len(fp_ret.persons) = 1

\* ------------------------------------------------ VideoProcessor's jobs
\* C15: a job on a VideoProcessor ends as it ends when it runs alone on a
\* new VideoProcessor, with the same frame ids, person ids and velocities,
\* whatever other jobs ran before it or run interleaved with it.
ClaimC15 ==
    \A j \in JobIds :
        jobs[j].status \in {"done", "failed"} =>
            /\ jobs[j].status = RunAlone(jobs[j].video).status
            /\ jobs[j].raw_results = RunAlone(jobs[j].video).results

\* ---------------------------------------------------- WebSocketManager
\* C16: the frames of a connection are processed by the FrameProcessor
\* created for it at connect, so what is sent back is what one
\* FrameProcessor returns for the connection's frames in order (tracks
\* and previous frame carried over), whatever happens on other
\* connections.
ClaimC16 ==
    \A c \in WsIds :
        ws_frames[c].connected =>
            ws_results[c] = RunStream(NewFrameProcessor, ws_frames[c].frames, 1)

\* ------------------------------------------------------ AngleCalculator
\* The keypoints the angles are computed from.
Used == AdjustForDirection(angle_keypoints)
At(name) == PointOf(Used, name)

\* Whether a joint angle's definition lacks one of the three points it
\* is computed from, or one of its two vectors has no length.
JointDegenerate(angle_def) ==
    LET pts == angle_def.points
    IN  \/ \E k \in 1..3 : At(pts[k]) = None
        \/ IF angle_def.type = "dorsiflexion" /\ At(pts[4]) # None
           THEN At(pts[3]) = At(pts[4]) \/ At(pts[1]) = At(pts[2])
           ELSE At(pts[1]) = At(pts[2]) \/ At(pts[3]) = At(pts[2])

\* The same for a segment angle: a point is missing or the two coincide.
SegmentDegenerate(angle_def) ==
    LET pts == angle_def.points
    IN  \/ At(pts[1]) = None
        \/ At(pts[2]) = None
        \/ At(pts[1]) = At(pts[2])

\* C20: calculate_angles returns None for every joint angle and every
\* segment angle that lacks a keypoint it is computed from or has a vector
\* of zero length (two coincident points); no angle it returns is NaN.
ClaimC20 ==
    angle_done =>
        /\ \A name \in DOMAIN JOINT_ANGLES :
              /\ JointDegenerate(JOINT_ANGLES[name]) =>
                    angle_out.joint_angles[name] = NoAngle
              /\ angle_out.joint_angles[name] # NotANumber
        /\ \A name \in DOMAIN SEGMENT_ANGLES :
              /\ SegmentDegenerate(SEGMENT_ANGLES[name]) =>
                    angle_out.segment_angles[name] = NoAngle
              /\ angle_out.segment_angles[name] # NotANumber

\* ------------------------------------------- failures inside a video job
\* The frames of job j that were still to be read when the job ended.
LaterFrames(j) == Len(jobs[j].video.frames) - (jobs[j].frame_count + 1)

\* C21: a failure on one frame of a video job (in the computation for one
\* of its persons, or for the frame) does not abort the job: no job ends
\* failed with frames still to be processed.
ClaimC21 ==
    \A j \in JobIds :
        jobs[j].status = "failed" => LaterFrames(j) = 0

\* ---------------------------------------------- the frame range of a job
\* The video's duration in seconds.
Duration == <<cap.total_frames, cap.fps>>

\* start_time lies beyond the end of the video, or end_time before
\* start_time.
OutOfRange ==
    /\ job_args.start_time # None
    /\ \/ RatLess(Duration, job_args.start_time)
       \/ /\ job_args.end_time # None
          /\ RatLess(job_args.end_time, job_args.start_time)

\* C22: a job whose video cannot be opened or whose start/end time is out
\* of range never returns a result; it ends by raising.
ClaimC22 ==
    (~cap.opened \/ OutOfRange) => job_ret.status # "returned"

\* The offsets from the start frame the loop has passed.
Passed == job_loop.frame_count

\* The k-th multiple of skip_frames, from 0 on.
Offset(k) == (k - 1) * job_args.skip_frames

\* How many multiples of skip_frames lie below n.
Multiples(n) == IF n <= 0 THEN 0 ELSE (n - 1) \div job_args.skip_frames + 1

\* The frames of the video from the start frame on, below the end frame.
InRange ==
    LET last == IF job_loop.end_frame < cap.total_frames
                THEN job_loop.end_frame ELSE cap.total_frames
    IN  IF last > job_loop.start_frame THEN last - job_loop.start_frame ELSE 0

\* C23: a job reads the frames from the start frame on, below the end
\* frame, each once and in order; it gives FrameProcessor exactly those at
\* the offsets 0, skip_frames, 2*skip_frames, ..., in increasing order, each
\* with the timestamp (start_frame + offset)/fps, and collects one result
\* per analyzed frame; the frames in between are read and not analyzed.
ThmC23 ==
    job_loop.pc \in {"loop", "returned"} =>
        /\ job_reads = [i \in 1..Passed |-> job_loop.start_frame + i - 1]
        /\ Len(job_calls) = Multiples(Passed)
        /\ \A k \in 1..Len(job_calls) :
              /\ job_calls[k].frame = job_loop.start_frame + Offset(k)
              /\ RatEq(job_calls[k].timestamp,
                       <<job_loop.start_frame + Offset(k), cap.fps>>)
        /\ Len(job_loop.raw_results) = Len(job_calls)
        /\ job_loop.pc = "returned" =>
              /\ Passed = InRange
              /\ job_ret.results = job_loop.raw_results

\* A returned job that started after the first frame and analyzed two
\* frames with frames in between.
WitC23 ==
    /\ job_ret.status = "returned"
    /\ job_loop.start_frame > 0
    /\ job_args.skip_frames > 1
    /\ Len(job_calls) = 2
    /\ Len(job_reads) > Len(job_calls)

\* -------------------------------------------------------- FilterFactory
\* C24: a filter function from get_filter never raises: whatever the
\* series and the sample rate, it returns the filtered series or the
\* series it was given.
ClaimC24 ==
    filt_done =>
        /\ ~filt_out.raised
        /\ filt_out.by = "none" => filt_out.data = filt_data

\* ------------------------------------------------ the post-processing gate
\* C25: a job post-processes its results only when apply_filter is set and
\* more than 10 frames were collected; otherwise no series is given to a
\* filter and the job returns the raw FrameResults, unchanged and in order.
ThmC25 ==
    video_done =>
        /\ filter_in # {} => (apply_filter /\ Len(raw_results) > MinFilterFrames)
        /\ ~(apply_filter /\ Len(raw_results) > MinFilterFrames) =>
              /\ video_out = raw_results
              /\ filter_in = {}

\* A finished job with apply_filter set, the median filter and exactly 10
\* frames, returned as collected.
WitC25 ==
    /\ video_done
    /\ apply_filter
    /\ filter_type = "median"
    /\ Len(raw_results) = MinFilterFrames
    /\ video_out = raw_results
    /\ MedianFilter([f \in 1..Len(raw_results) |-> SignalAt(f - 1)])
           # [f \in 1..Len(raw_results) |-> SignalAt(f - 1)]

\* ------------------------------------------- immutability of raw results
\* C26: the filtering step builds new results and leaves the raw
\* FrameResults it was given as they were collected: after the job their
\* keypoints and angles are unchanged.
ClaimC26 ==
    video_done => held_results = raw_results

\* ------------------------------------------------- frames_lost of a track
\* C27: after every update call the frames_lost of each track is the
\* number of consecutive update calls, ending with this one, in which no
\* detection was assigned to it: 0 for a track matched or created in this
\* call.
ClaimC27 ==
    op = "update" =>
        \A i \in DOMAIN person_tracks :
            person_tracks[i].frames_lost = history[i].misses

\* ------------------------------------------- elapsed time of a velocity
\* The one person of the k-th collected FrameResult.
PersonAt(k) == job_loop.raw_results[k].persons[1]

\* Displacement of the person between the (k-1)-th and the k-th analyzed
\* frame over the difference of their timestamps, rounded as velocities
\* are.
OverElapsed(k, axis) ==
    Round2(RatDiv(RatSub(PersonAt(k).keypoints.hip_center[axis],
                         PersonAt(k - 1).keypoints.hip_center[axis]),
                  RatSub(job_calls[k].timestamp, job_calls[k - 1].timestamp)))

\* C28: the velocity of a person is its displacement since the previous
\* processed frame divided by the difference of the two frames'
\* timestamps (k/fps in a job with skip_frames = k).
ClaimC28 ==
    \A k \in 2..Len(job_loop.raw_results) :
        /\ RatEq(PersonAt(k).velocity.x, OverElapsed(k, 1))
        /\ RatEq(PersonAt(k).velocity.y, OverElapsed(k, 2))

\* -------------------------------------- one FrameProcessor per connection
\* C29: WebSocketManager holds exactly one FrameProcessor per active
\* connection and none for a connection that has ended, by disconnect or
\* by an error.
ClaimC29 ==
    /\ DOMAIN frame_processors = ws_open
    /\ Range(active_connections) = ws_open
    /\ Len(active_connections) = Cardinality(ws_open)

\* ---------------------------------------------------- MetricsCalculator
\* Whether the keypoints hold the point, under its name or under the
\* detector's name for it.
Held(name) ==
    name \in DOMAIN metrics_keypoints \/ DetectorName(name) \in DOMAIN metrics_keypoints
FootPoint(name) ==
    IF name \in DOMAIN metrics_keypoints THEN metrics_keypoints[name]
    ELSE metrics_keypoints[DetectorName(name)]
AllFeetHeld == \A name \in FootNames : Held(name)

\* Toe minus heel along x, for a foot whose toe and heel are held.
FootDir(side) == FootPoint(side \o "_toe")[1] - FootPoint(side \o "_heel")[1]

\* C30: visible_side is "right" or "left" only when the toe and heel of
\* both feet are present and both toe-minus-heel x-displacements exceed 10
\* px in the same direction; with a toe or heel missing it is "front" or
\* "unknown" and movement_direction is "stationary".
ClaimC30 ==
    metrics_done =>
        /\ metrics_out.visible_side \in {"right", "left"} =>
              /\ AllFeetHeld
              /\ \/ FootDir("left") > FootThreshold /\ FootDir("right") > FootThreshold
                 \/ FootDir("left") < -FootThreshold /\ FootDir("right") < -FootThreshold
        /\ ~AllFeetHeld =>
              /\ metrics_out.visible_side \in {"front", "unknown"}
              /\ metrics_out.movement_direction = "stationary"

====
